---- MODULE Spec2Model ----
(***************************************************************************)
(* Ride pooling optimisation core: RidePooler, RouteSolver, PricingEngine  *)
(* and the OptimizationService orchestrator.                               *)
(*                                                                         *)
(* Geometry.  A Location is [lat, lon].  All locations of the model lie on *)
(* one great circle through the poles: the meridian lon = 20 and its       *)
(* antimeridian lon = 200 (an out-of-range longitude).  lat is kept as the *)
(* arc length EARTH_RADIUS_KM * radians(latitude) in whole kilometres, so  *)
(* the Haversine distance of two such points is an exact integer: the      *)
(* difference of the arc lengths on one meridian, and half the             *)
(* circumference minus the sum of the arc lengths across the pole.         *)
(* Times are whole minutes.  Money is kept in cents, ratios in hundredths. *)
(***************************************************************************)
EXTENDS Integers, Sequences, FiniteSets, TLC

\* ------------------------------------------------------------------ bounds
\* longest input list handed to optimize() / optimize_rides()
MaxRides == 4
\* longest list handed to the pooler when it is called alone
MaxPoolRides == 4
\* largest max_group_size handed to find_compatible_groups
MaxGroupSizeArg == 4
\* longest ride list whose routes are priced when the pricing engine is
\* exercised alone
MaxPricedRides == 3
\* largest num_riders_in_pool handed to calculate_pooled_price
MaxRidersInPool == 6
\* largest cluster_size and total_rides handed to compute_pooling_efficiency
MaxClusterSizeArg == 6
\* most bids recorded on the chain, all bundles together
MaxBids == 2
\* most calls of the adapter's start_commit, all bundles together
MaxAdapterCalls == 2
\* most blocks mined while the agent is observed
MaxBlocks == 2
\* most AuctionFinalized events in one block
MaxEventsPerBlock == 2
\* most iterations of the monitoring loop
MaxPolls == 3

\* --------------------------------------------------------------- constants
MAX_PICKUP_DISTANCE_KM == 2
VEHICLE_CAPACITY == 4
DEFAULT_MAX_DETOUR_MINUTES == 15
EARTH_RADIUS_KM == 6371
\* pi * EARTH_RADIUS_KM, in whole km
HalfCircumferenceKm == 20015
\* latitude 90 degrees as an arc length in km (pi/2 * EARTH_RADIUS_KM)
LatLimitKm == 10007
\* longitude limit of Location, degrees
LonLimitDeg == 180
\* average city speed used by every straight-line time estimate
SpeedKmh == 30
\* default max_group_size of find_compatible_groups
DefaultMaxGroupSize == 4
\* waiting slack of the OR-Tools time dimension, minutes
MaxWaitMinutes == 60
\* horizon of the OR-Tools time dimension and of the depot window, minutes
DayMinutes == 1440
\* a dropoff may happen this long after the pickup window closes, minutes
DropoffSlackMinutes == 120
\* pricing constants, cents and percent
BASE_FARE == 300
PER_KM_RATE == 150
PER_MINUTE_RATE == 30
PLATFORM_FEE_RATE == 15
\* legacy compute_pricing constants: 10.0 per km in cents, 10 percent
RATE_PER_KM == 1000
BROKER_COMMISSION_RATE == 10
\* discount_calculator constants: cents, percent, flex reference
BASE_RIDE_COST == 10000
MAX_DISCOUNT_RATIO == 30
FLEX_REFERENCE == 120
\* capacity literal of _validate_solution
ValidateCapacity == 4
\* upper bound of VehicleRoute.capacity_used / Stop.num_passengers
RouteCapacityLimit == 4
\* upper bound of PricingBreakdown.pooling_efficiency, hundredths
PoolingEfficiencyLimit == 100

\* ----------------------------------------------------------------- helpers
Abs(x) == IF x < 0 THEN -x ELSE x

Max2(a, b) == IF a > b THEN a ELSE b

Min2(a, b) == IF a < b THEN a ELSE b

Range(s) == {s[i] : i \in 1..Len(s)}

RECURSIVE SeqSum(_)
SeqSum(s) == IF s = <<>> THEN 0 ELSE Head(s) + SeqSum(Tail(s))

RECURSIVE SeqMax(_)
SeqMax(s) == IF Len(s) = 1 THEN s[1] ELSE Max2(Head(s), SeqMax(Tail(s)))

RECURSIVE Flatten(_)
Flatten(ss) == IF ss = <<>> THEN <<>> ELSE Head(ss) \o Flatten(Tail(ss))

\* ------------------------------------------------------------------ pooling
\* Haversine distance in km between two locations of the model's great circle
estimate_geographic_distance(loc1, loc2) ==
    IF loc1.lon = loc2.lon
    THEN Abs(loc2.lat - loc1.lat)
    ELSE HalfCircumferenceKm - Abs(loc1.lat + loc2.lat)

\* check_time_overlap counting windows that touch at an endpoint
check_time_overlap_Touching(tw1, tw2) ==
    LET latest_start == Max2(tw1.earliest, tw2.earliest)
        earliest_end == Min2(tw1.latest, tw2.latest)
    IN  latest_start <= earliest_end

check_time_overlap(tw1, tw2) ==
    LET latest_start == Max2(tw1.earliest, tw2.earliest)
        earliest_end == Min2(tw1.latest, tw2.latest)
    IN  latest_start < earliest_end

\* extra minutes for ride1, times SpeedKmh (kept multiplied to stay integral)
estimate_detour_sync(ride1, ride2) ==
    LET solo1_dist == estimate_geographic_distance(ride1.pickup, ride1.dropoff)
        p1_to_p2 == estimate_geographic_distance(ride1.pickup, ride2.pickup)
        p2_to_d1 == estimate_geographic_distance(ride2.pickup, ride1.dropoff)
        pooled_dist == p1_to_p2 + p2_to_d1
        extra_dist == Max2(0, pooled_dist - solo1_dist)
    IN  extra_dist * 60

\* can_pool without Check 2, the time window overlap
can_pool_NoOverlap(ride1, ride2) ==
    /\ ride1.num_passengers + ride2.num_passengers <= VEHICLE_CAPACITY
    /\ estimate_geographic_distance(ride1.pickup, ride2.pickup)
          <= MAX_PICKUP_DISTANCE_KM
    /\ estimate_detour_sync(ride1, ride2) <= DEFAULT_MAX_DETOUR_MINUTES * SpeedKmh

\* can_pool without Check 3, the pickup proximity
can_pool_NoProximity(ride1, ride2) ==
    /\ ride1.num_passengers + ride2.num_passengers <= VEHICLE_CAPACITY
    /\ check_time_overlap(ride1.time_window, ride2.time_window)
    /\ estimate_detour_sync(ride1, ride2) <= DEFAULT_MAX_DETOUR_MINUTES * SpeedKmh

can_pool(ride1, ride2) ==
    /\ ride1.num_passengers + ride2.num_passengers <= VEHICLE_CAPACITY
    /\ check_time_overlap(ride1.time_window, ride2.time_window)
    /\ estimate_geographic_distance(ride1.pickup, ride2.pickup)
          <= MAX_PICKUP_DISTANCE_KM
    /\ estimate_detour_sync(ride1, ride2) <= DEFAULT_MAX_DETOUR_MINUTES * SpeedKmh

\* sorted(rides, key=preferred): stable, ties keep input order
RECURSIVE InsertByPreferred(_, _)
InsertByPreferred(sorted, r) ==
    IF sorted = <<>> THEN <<r>>
    ELSE IF Head(sorted).time_window.preferred <= r.time_window.preferred
         THEN <<Head(sorted)>> \o InsertByPreferred(Tail(sorted), r)
         ELSE <<r>> \o sorted

RECURSIVE SortByPreferred(_)
SortByPreferred(rs) ==
    IF rs = <<>> THEN <<>>
    ELSE InsertByPreferred(SortByPreferred(SubSeq(rs, 1, Len(rs) - 1)), rs[Len(rs)])

\* ScanCandidates without the check of the group's passenger total
RECURSIVE ScanCandidates_NoCapacity(_, _, _, _, _)
ScanCandidates_NoCapacity(sorted_rides, seed_ride, j, st, max_group_size) ==
    IF j > Len(sorted_rides) THEN st
    ELSE LET candidate == sorted_rides[j] IN
         IF candidate.id \in st.assigned
         THEN ScanCandidates_NoCapacity(sorted_rides, seed_ride, j + 1, st,
                                        max_group_size)
         ELSE IF Len(st.group) >= max_group_size
         THEN st
         ELSE IF can_pool(seed_ride, candidate)
         THEN ScanCandidates_NoCapacity(sorted_rides, seed_ride, j + 1,
                  [group |-> Append(st.group, candidate),
                   assigned |-> st.assigned \cup {candidate.id},
                   passengers |-> st.passengers + candidate.num_passengers],
                  max_group_size)
         ELSE ScanCandidates_NoCapacity(sorted_rides, seed_ride, j + 1, st,
                                        max_group_size)

\* ScanCandidates testing the candidate against every member of the group
RECURSIVE ScanCandidates_AllMembers(_, _, _, _, _)
ScanCandidates_AllMembers(sorted_rides, seed_ride, j, st, max_group_size) ==
    IF j > Len(sorted_rides) THEN st
    ELSE LET candidate == sorted_rides[j] IN
         IF candidate.id \in st.assigned
         THEN ScanCandidates_AllMembers(sorted_rides, seed_ride, j + 1, st,
                                        max_group_size)
         ELSE IF Len(st.group) >= max_group_size
         THEN st
         ELSE IF st.passengers + candidate.num_passengers > VEHICLE_CAPACITY
         THEN ScanCandidates_AllMembers(sorted_rides, seed_ride, j + 1, st,
                                        max_group_size)
         ELSE IF \A m \in 1..Len(st.group) : can_pool(st.group[m], candidate)
         THEN ScanCandidates_AllMembers(sorted_rides, seed_ride, j + 1,
                  [group |-> Append(st.group, candidate),
                   assigned |-> st.assigned \cup {candidate.id},
                   passengers |-> st.passengers + candidate.num_passengers],
                  max_group_size)
         ELSE ScanCandidates_AllMembers(sorted_rides, seed_ride, j + 1, st,
                                        max_group_size)

\* ScanCandidates ending the scan at the first candidate over capacity
RECURSIVE ScanCandidates_StopAtOverCapacity(_, _, _, _, _)
ScanCandidates_StopAtOverCapacity(sorted_rides, seed_ride, j, st, max_group_size) ==
    IF j > Len(sorted_rides) THEN st
    ELSE LET candidate == sorted_rides[j] IN
         IF candidate.id \in st.assigned
         THEN ScanCandidates_StopAtOverCapacity(sorted_rides, seed_ride, j + 1, st,
                                                max_group_size)
         ELSE IF Len(st.group) >= max_group_size
         THEN st
         ELSE IF st.passengers + candidate.num_passengers > VEHICLE_CAPACITY
         THEN st
         ELSE IF can_pool(seed_ride, candidate)
         THEN ScanCandidates_StopAtOverCapacity(sorted_rides, seed_ride, j + 1,
                  [group |-> Append(st.group, candidate),
                   assigned |-> st.assigned \cup {candidate.id},
                   passengers |-> st.passengers + candidate.num_passengers],
                  max_group_size)
         ELSE ScanCandidates_StopAtOverCapacity(sorted_rides, seed_ride, j + 1, st,
                                                max_group_size)

\* the inner candidate loop of find_compatible_groups, from position j on;
\* st = [group, assigned, passengers]
RECURSIVE ScanCandidates(_, _, _, _, _)
ScanCandidates(sorted_rides, seed_ride, j, st, max_group_size) ==
    IF j > Len(sorted_rides) THEN st
    ELSE LET candidate == sorted_rides[j] IN
         IF candidate.id \in st.assigned
         THEN ScanCandidates(sorted_rides, seed_ride, j + 1, st, max_group_size)
         ELSE IF Len(st.group) >= max_group_size
         THEN st
         ELSE IF st.passengers + candidate.num_passengers > VEHICLE_CAPACITY
         THEN ScanCandidates(sorted_rides, seed_ride, j + 1, st, max_group_size)
         ELSE IF can_pool(seed_ride, candidate)
         THEN ScanCandidates(sorted_rides, seed_ride, j + 1,
                  [group |-> Append(st.group, candidate),
                   assigned |-> st.assigned \cup {candidate.id},
                   passengers |-> st.passengers + candidate.num_passengers],
                  max_group_size)
         ELSE ScanCandidates(sorted_rides, seed_ride, j + 1, st, max_group_size)

\* FormGroups with the seed left out of `assigned`
RECURSIVE FormGroups_SeedNotAssigned(_, _, _, _, _)
FormGroups_SeedNotAssigned(sorted_rides, i, assigned, groups, max_group_size) ==
    IF i > Len(sorted_rides) THEN groups
    ELSE LET seed_ride == sorted_rides[i] IN
         IF seed_ride.id \in assigned
         THEN FormGroups_SeedNotAssigned(sorted_rides, i + 1, assigned, groups,
                                         max_group_size)
         ELSE LET st == ScanCandidates(sorted_rides, seed_ride, 1,
                            [group |-> <<seed_ride>>,
                             assigned |-> assigned,
                             passengers |-> seed_ride.num_passengers],
                            max_group_size)
              IN  FormGroups_SeedNotAssigned(sorted_rides, i + 1, st.assigned,
                             Append(groups, st.group), max_group_size)

\* the outer seed loop, from position i on
RECURSIVE FormGroups(_, _, _, _, _)
FormGroups(sorted_rides, i, assigned, groups, max_group_size) ==
    IF i > Len(sorted_rides) THEN groups
    ELSE LET seed_ride == sorted_rides[i] IN
         IF seed_ride.id \in assigned
         THEN FormGroups(sorted_rides, i + 1, assigned, groups, max_group_size)
         ELSE LET st == ScanCandidates(sorted_rides, seed_ride, 1,
                            [group |-> <<seed_ride>>,
                             assigned |-> assigned \cup {seed_ride.id},
                             passengers |-> seed_ride.num_passengers],
                            max_group_size)
              IN  FormGroups(sorted_rides, i + 1, st.assigned,
                             Append(groups, st.group), max_group_size)

find_compatible_groups(rs, max_group_size) ==
    IF rs = <<>> THEN <<>>
    ELSE FormGroups(SortByPreferred(rs), 1, {}, <<>>, max_group_size)

pool_rides(ride_requests) == find_compatible_groups(ride_requests, DefaultMaxGroupSize)

\* ------------------------------------------------------------------- routes
\* Stop(...) as every constructor call of the solvers fills it
Stop(ride, type, sequence) ==
    [ride_id |-> ride.id,
     location |-> IF type = "pickup" THEN ride.pickup ELSE ride.dropoff,
     type |-> type,
     time_window |-> ride.time_window,
     num_passengers |-> ride.num_passengers,
     sequence |-> sequence]

\* Field constraints of Stop and VehicleRoute: constructing a record that
\* breaks them raises ValidationError
StopValid(stop) ==
    /\ stop.num_passengers >= 0
    /\ stop.num_passengers <= RouteCapacityLimit
    /\ stop.sequence >= 0

VehicleRouteValid(route) ==
    /\ \A i \in 1..Len(route.stops) : StopValid(route.stops[i])
    /\ route.total_distance_km >= 0
    /\ route.total_duration_minutes >= 0
    /\ route.capacity_used >= 0
    /\ route.capacity_used <= RouteCapacityLimit
    /\ route.revenue >= 0

\* int((dist / 30) * 60) for a distance in whole km
DurationOfKm(dist) == (dist * 60) \div SpeedKmh

\* create_solo_route with the second stop built as another pickup
create_solo_route_TwoPickups(ride) ==
    LET dist == estimate_geographic_distance(ride.pickup, ride.dropoff)
    IN  [vehicle_id |-> "vehicle_uuid",
         stops |-> <<Stop(ride, "pickup", 0),
                     [Stop(ride, "dropoff", 1) EXCEPT !.type = "pickup"]>>,
         total_distance_km |-> dist * 100,
         total_duration_minutes |-> DurationOfKm(dist),
         capacity_used |-> ride.num_passengers,
         revenue |-> 0,
         load_profile |-> <<ride.num_passengers, 0>>]

\* total_distance_km is kept in hundredths of a km, the grain of round(x, 2)
create_solo_route(ride) ==
    LET dist == estimate_geographic_distance(ride.pickup, ride.dropoff)
        duration == DurationOfKm(dist)
    IN  [vehicle_id |-> "vehicle_uuid",
         stops |-> <<Stop(ride, "pickup", 0), Stop(ride, "dropoff", 1)>>,
         total_distance_km |-> dist * 100,
         total_duration_minutes |-> duration,
         capacity_used |-> ride.num_passengers,
         revenue |-> 0,
         load_profile |-> <<ride.num_passengers, 0>>]

\* fallback_solo_routes that skips the first ride
fallback_solo_routes_SkipFirst(rs) ==
    [i \in 1..(Len(rs) - 1) |-> create_solo_route(rs[i + 1])]

fallback_solo_routes(rs) == [i \in 1..Len(rs) |-> create_solo_route(rs[i])]

\* RouteSolver._solve_greedy: one two-stop route per ride
solve_greedy(rs) ==
    [i \in 1..Len(rs) |->
        LET ride == rs[i]
            dist == estimate_geographic_distance(ride.pickup, ride.dropoff)
        IN  [vehicle_id |-> "vehicle_greedy",
             stops |-> <<Stop(ride, "pickup", 0), Stop(ride, "dropoff", 1)>>,
             total_distance_km |-> dist * 100,
             total_duration_minutes |-> DurationOfKm(dist),
             capacity_used |-> ride.num_passengers,
             revenue |-> 0,
             load_profile |-> <<ride.num_passengers, 0>>]]

\* running passenger total after each of the first n stops built by
\* solve_cluster (pickups of the cluster in order, then its dropoffs)
ClusterLoadAfter(cluster, n) ==
    LET k == Len(cluster)
        up == SeqSum([i \in 1..Min2(n, k) |-> cluster[i].num_passengers])
        down == IF n > k
                THEN SeqSum([i \in 1..(n - k) |-> cluster[i].num_passengers])
                ELSE 0
    IN  up - down

RECURSIVE PathLength(_)
PathLength(stops) ==
    IF Len(stops) <= 1 THEN 0
    ELSE estimate_geographic_distance(stops[1].location, stops[2].location)
         + PathLength(Tail(stops))

\* solve_cluster with the sequence counter restarted for the dropoffs
solve_cluster_SequenceReset(cluster) ==
    IF cluster = <<>>
    THEN [vehicle_id |-> "vehicle_0", stops |-> <<>>, total_distance_km |-> 0,
          total_duration_minutes |-> 0, capacity_used |-> 0, revenue |-> 0,
          load_profile |-> <<>>]
    ELSE LET k == Len(cluster)
             stops == [n \in 1..(2 * k) |->
                          IF n <= k THEN Stop(cluster[n], "pickup", n - 1)
                          ELSE Stop(cluster[n - k], "dropoff", n - k - 1)]
             load_profile == [n \in 1..(2 * k) |-> ClusterLoadAfter(cluster, n)]
             total_distance == PathLength(stops)
         IN  [vehicle_id |-> "vehicle_0",
              stops |-> stops,
              total_distance_km |-> total_distance * 100,
              total_duration_minutes |-> DurationOfKm(total_distance),
              capacity_used |-> SeqMax(load_profile),
              revenue |-> 0,
              load_profile |-> load_profile]

\* solve_cluster appending the load to the profile before the stop changes it
solve_cluster_LoadBeforeStop(cluster) ==
    IF cluster = <<>>
    THEN [vehicle_id |-> "vehicle_0", stops |-> <<>>, total_distance_km |-> 0,
          total_duration_minutes |-> 0, capacity_used |-> 0, revenue |-> 0,
          load_profile |-> <<>>]
    ELSE LET k == Len(cluster)
             stops == [n \in 1..(2 * k) |->
                          IF n <= k THEN Stop(cluster[n], "pickup", n - 1)
                          ELSE Stop(cluster[n - k], "dropoff", n - 1)]
             load_profile == [n \in 1..(2 * k) |-> ClusterLoadAfter(cluster, n - 1)]
             total_distance == PathLength(stops)
         IN  [vehicle_id |-> "vehicle_0",
              stops |-> stops,
              total_distance_km |-> total_distance * 100,
              total_duration_minutes |-> DurationOfKm(total_distance),
              capacity_used |-> SeqMax(load_profile),
              revenue |-> 0,
              load_profile |-> load_profile]

\* legacy solve_cluster: all pickups first, then all dropoffs
solve_cluster(cluster) ==
    IF cluster = <<>>
    THEN [vehicle_id |-> "vehicle_0", stops |-> <<>>, total_distance_km |-> 0,
          total_duration_minutes |-> 0, capacity_used |-> 0, revenue |-> 0,
          load_profile |-> <<>>]
    ELSE LET k == Len(cluster)
             stops == [n \in 1..(2 * k) |->
                          IF n <= k THEN Stop(cluster[n], "pickup", n - 1)
                          ELSE Stop(cluster[n - k], "dropoff", n - 1)]
             load_profile == [n \in 1..(2 * k) |-> ClusterLoadAfter(cluster, n)]
             total_distance == PathLength(stops)
         IN  [vehicle_id |-> "vehicle_0",
              stops |-> stops,
              total_distance_km |-> total_distance * 100,
              total_duration_minutes |-> DurationOfKm(total_distance),
              capacity_used |-> SeqMax(load_profile),
              revenue |-> 0,
              load_profile |-> load_profile]

\* ----------------------------------------------------- constrained solver
\* Nodes of the routing model: 0 is the depot (the first ride's pickup),
\* 2i-1 and 2i are the pickup and the dropoff of ride i (i = 1..k).
NodeRide(n) == (n + 1) \div 2

NodeIsPickup(n) == n % 2 = 1

NodeLocation(rs, n) ==
    IF n = 0 THEN rs[1].pickup
    ELSE IF NodeIsPickup(n) THEN rs[NodeRide(n)].pickup
    ELSE rs[NodeRide(n)].dropoff

\* _build_distance_matrix: minutes at 30 km/h, at least 1 between two nodes
distance_matrix(rs, i, j) ==
    IF i = j THEN 0
    ELSE Max2(1, DurationOfKm(
             estimate_geographic_distance(NodeLocation(rs, i), NodeLocation(rs, j))))

\* _build_demands
demands(rs, n) ==
    IF n = 0 THEN 0
    ELSE IF NodeIsPickup(n) THEN rs[NodeRide(n)].num_passengers
    ELSE 0 - rs[NodeRide(n)].num_passengers

\* min earliest of the batch, rounded down to the hour
reference_dt(rs) ==
    LET es == {rs[i].time_window.earliest : i \in 1..Len(rs)}
        min_time == CHOOSE e \in es : \A f \in es : e <= f
    IN  (min_time \div 60) * 60

\* _build_time_windows, as [lo, hi] minutes since the reference
time_windows(rs, n) ==
    IF n = 0 THEN [lo |-> 0, hi |-> DayMinutes]
    ELSE LET tw == rs[NodeRide(n)].time_window
             earliest == tw.earliest - reference_dt(rs)
             latest == tw.latest - reference_dt(rs)
         IN  IF NodeIsPickup(n) THEN [lo |-> earliest, hi |-> latest]
             ELSE [lo |-> earliest, hi |-> latest + DropoffSlackMinutes]

\* Orders of the 2k stops that respect pickup-before-dropoff and keep the
\* Capacity cumul inside [0, capacity] at every node
RECURSIVE CapacityOrders(_, _, _)
CapacityOrders(rs, remaining, load) ==
    IF remaining = {} THEN {<<>>}
    ELSE UNION {
           {<<n>> \o o : o \in CapacityOrders(rs, remaining \ {n}, load + demands(rs, n))} :
           n \in {m \in remaining :
                    /\ NodeIsPickup(m) \/ (m - 1) \notin remaining
                    /\ load + demands(rs, m) >= 0
                    /\ load + demands(rs, m) <= VEHICLE_CAPACITY}}

\* Interval of Time cumuls the solver can give the stops of an order, stop
\* by stop: transit plus at most MaxWaitMinutes of waiting, inside the
\* node's window and the day horizon.  Result: feasibility and the interval
\* at the last stop.
RECURSIVE TimeInterval(_, _, _, _, _, _)
TimeInterval(rs, order, i, prev, lo, hi) ==
    IF i > Len(order)
    THEN [ok |-> lo + distance_matrix(rs, prev, 0) <= DayMinutes, lo |-> lo, hi |-> hi]
    ELSE LET n == order[i]
             w == time_windows(rs, n)
             nlo == Max2(lo + distance_matrix(rs, prev, n), w.lo)
             nhi == Min2(Min2(hi + distance_matrix(rs, prev, n) + MaxWaitMinutes, w.hi),
                         DayMinutes)
         IN  IF nlo > nhi THEN [ok |-> FALSE, lo |-> 0, hi |-> 0]
             ELSE TimeInterval(rs, order, i + 1, n, nlo, nhi)

\* Capacity cumul on arrival at the i-th stop of an order
RECURSIVE LoadBefore(_, _, _)
LoadBefore(rs, order, i) ==
    IF i <= 1 THEN 0
    ELSE LoadBefore(rs, order, i - 1) + demands(rs, order[i - 1])

\* _extract_routes for the single vehicle: total_time is the Time cumul of
\* the last stop
extract_route(rs, order, total_time) ==
    LET load_profile == [i \in 1..Len(order) |-> LoadBefore(rs, order, i)]
    IN  [vehicle_id |-> "vehicle_0",
         stops |-> [i \in 1..Len(order) |->
                      Stop(rs[NodeRide(order[i])],
                           IF NodeIsPickup(order[i]) THEN "pickup" ELSE "dropoff",
                           i - 1)],
         total_distance_km |-> (total_time * SpeedKmh * 100) \div 60,
         total_duration_minutes |-> total_time,
         capacity_used |-> IF Len(load_profile) > 0 THEN SeqMax(load_profile) ELSE 0,
         revenue |-> 0,
         load_profile |-> load_profile]

\* Every route the constrained search may return for one vehicle: any order
\* satisfying the constraints, with the Time cumul of the last stop at the
\* minimum of its feasible interval, where the search instantiates it
ORToolsRoutes(rs) ==
    UNION {
      LET iv == TimeInterval(rs, order, 1, 0, 0, DayMinutes)
      IN  IF iv.ok THEN {extract_route(rs, order, iv.lo)} ELSE {} :
      order \in CapacityOrders(rs, 1..(2 * Len(rs)), 0)}

\* ------------------------------------------------------------------ pricing
\* round(a / b) for a >= 0, b > 0, halves up
RoundDiv(a, b) == (2 * a + b) \div (2 * b)

\* POOL_DISCOUNTS with 25% for three riders and 35% for four
POOL_DISCOUNTS_SmallerSteps(riders_key) ==
    CASE riders_key = 1 -> 0
      [] riders_key = 2 -> 20
      [] riders_key = 3 -> 25
      [] OTHER -> 35

\* POOL_DISCOUNTS, percent
POOL_DISCOUNTS(riders_key) ==
    CASE riders_key = 1 -> 0
      [] riders_key = 2 -> 20
      [] riders_key = 3 -> 30
      [] riders_key = 4 -> 40
      [] OTHER -> 40

\* distance in hundredths of a km, duration in minutes; cents
calculate_base_price_raises(distance_km, duration_minutes) ==
    distance_km < 0 \/ duration_minutes < 0

calculate_base_price(distance_km, duration_minutes) ==
    BASE_FARE + RoundDiv(distance_km * PER_KM_RATE, 100)
              + duration_minutes * PER_MINUTE_RATE

calculate_pooled_price_raises(base_price, num_riders_in_pool) ==
    base_price < 0 \/ num_riders_in_pool < 1

calculate_pooled_price(base_price, num_riders_in_pool) ==
    LET riders_key == Min2(num_riders_in_pool, 4)
        discount_rate == POOL_DISCOUNTS(riders_key)
    IN  RoundDiv(base_price * (100 - discount_rate), 100)

StopRideIds(route) == {route.stops[i].ride_id : i \in 1..Len(route.stops)}

\* riders the earnings of a route are computed for
earnings_num_riders(route) ==
    LET num_riders == Cardinality(StopRideIds(route)) \div 2
    IN  IF num_riders = 0 THEN Max2(1, Len(route.stops) \div 2) ELSE num_riders

calculate_driver_earnings(route) ==
    LET num_riders == earnings_num_riders(route)
        base_price == calculate_base_price(route.total_distance_km,
                                           route.total_duration_minutes)
        pooled_price == calculate_pooled_price(base_price, num_riders)
        gross_revenue == pooled_price * num_riders
    IN  [gross_revenue |-> gross_revenue,
         platform_fee |-> RoundDiv(gross_revenue * PLATFORM_FEE_RATE, 100),
         net_earnings |-> RoundDiv(gross_revenue * (100 - PLATFORM_FEE_RATE), 100),
         earnings_per_km |->
             IF route.total_distance_km > 0
             THEN RoundDiv(gross_revenue * (100 - PLATFORM_FEE_RATE),
                           route.total_distance_km)
             ELSE 0]

\* integer square root
RECURSIVE ISqrtFrom(_, _)
ISqrtFrom(x, r) == IF (r + 1) * (r + 1) > x THEN r ELSE ISqrtFrom(x, r + 1)

\* sqrt(lat_diff^2 + lon_diff^2) * 111 in metres.  lat_diff is the arc
\* length difference in km turned into degrees (111.195 km per degree).
solo_estimated_distance(ride) ==
    LET lat_km == Abs(ride.dropoff.lat - ride.pickup.lat)
        lon_deg == Abs(ride.dropoff.lon - ride.pickup.lon)
        lat_part == (lat_km * 7400000) \div 7413
        lon_part == lon_deg * 111000
    IN  IF lon_deg = 0 THEN lat_part
        ELSE IF lat_km = 0 THEN lon_part
        ELSE 1000 * ISqrtFrom((lat_part \div 1000) * (lat_part \div 1000)
                              + (lon_part \div 1000) * (lon_part \div 1000), 0)

\* solo price of one ride in cents: 3 + 1.5 d + 0.3 (3 d), d in km
solo_price(ride) ==
    BASE_FARE + RoundDiv(solo_estimated_distance(ride)
                           * (PER_KM_RATE + 3 * PER_MINUTE_RATE), 1000)

route_pooled_cost(route) ==
    LET num_riders == Max2(1, Len(route.stops) \div 2)
        base_price == calculate_base_price(route.total_distance_km,
                                           route.total_duration_minutes)
    IN  calculate_pooled_price(base_price, num_riders) * num_riders

estimate_savings(rs, routes) ==
    IF rs = <<>>
    THEN [total_solo_cost |-> 0, total_pooled_cost |-> 0, total_savings |-> 0,
          average_savings_per_ride |-> 0]
    ELSE LET total_solo_cost == SeqSum([i \in 1..Len(rs) |-> solo_price(rs[i])])
             total_pooled_cost ==
                 SeqSum([i \in 1..Len(routes) |-> route_pooled_cost(routes[i])])
             total_savings == Max2(0, total_solo_cost - total_pooled_cost)
         IN  [total_solo_cost |-> total_solo_cost,
              total_pooled_cost |-> total_pooled_cost,
              total_savings |-> total_savings,
              average_savings_per_ride |-> RoundDiv(total_savings, Len(rs))]

\* ------------------------------------------------------------- orchestrator
\* _validate_input: the rides reported invalid
ride_invalid(ride) ==
    \/ ride.time_window.earliest >= ride.time_window.latest
    \/ ~(0 - LatLimitKm <= ride.pickup.lat /\ ride.pickup.lat <= LatLimitKm)
    \/ ~(0 - LatLimitKm <= ride.dropoff.lat /\ ride.dropoff.lat <= LatLimitKm)

validate_input(rs) == SelectSeq(rs, ride_invalid)

\* rides = [r for r in rides if r not in validation_errors]
valid_rides(rs) ==
    LET validation_errors == validate_input(rs)
    IN  SelectSeq(rs, LAMBDA r : r \notin Range(validation_errors))

\* passenger total after the first n stops of a route, as _validate_solution
\* tracks current_load
RECURSIVE current_load(_, _)
current_load(stops, n) ==
    IF n = 0 THEN 0
    ELSE current_load(stops, n - 1)
         + (IF stops[n].type = "pickup" THEN stops[n].num_passengers
            ELSE 0 - stops[n].num_passengers)

\* ride ids of the pickup stops of all routes, in visiting order
PickupIds(routes) ==
    Flatten([r \in 1..Len(routes) |->
        LET ps == SelectSeq(routes[r].stops, LAMBDA st : st.type = "pickup")
        IN  [i \in 1..Len(ps) |-> ps[i].ride_id]])

\* validate_solution without the check for unassigned rides
validate_solution_NoUnassigned(routes, rs) ==
    IF routes = <<>> THEN FALSE
    ELSE LET capacity_violation ==
                 \E r \in 1..Len(routes) : \E i \in 1..Len(routes[r].stops) :
                     /\ routes[r].stops[i].type = "pickup"
                     /\ current_load(routes[r].stops, i) > ValidateCapacity
             dropoff_before_pickup ==
                 \E r \in 1..Len(routes) : \E i \in 1..Len(routes[r].stops) :
                     /\ routes[r].stops[i].type = "dropoff"
                     /\ ~\E j \in 1..(i - 1) :
                            /\ routes[r].stops[j].type = "pickup"
                            /\ routes[r].stops[j].ride_id = routes[r].stops[i].ride_id
             ids == PickupIds(routes)
             assigned_multiple ==
                 \E i, j \in 1..Len(ids) : i < j /\ ids[i] = ids[j]
         IN  ~(capacity_violation \/ dropoff_before_pickup \/ assigned_multiple)

validate_solution(routes, rs) ==
    IF routes = <<>> THEN FALSE
    ELSE LET capacity_violation ==
                 \E r \in 1..Len(routes) : \E i \in 1..Len(routes[r].stops) :
                     /\ routes[r].stops[i].type = "pickup"
                     /\ current_load(routes[r].stops, i) > ValidateCapacity
             dropoff_before_pickup ==
                 \E r \in 1..Len(routes) : \E i \in 1..Len(routes[r].stops) :
                     /\ routes[r].stops[i].type = "dropoff"
                     /\ ~\E j \in 1..(i - 1) :
                            /\ routes[r].stops[j].type = "pickup"
                            /\ routes[r].stops[j].ride_id = routes[r].stops[i].ride_id
             ids == PickupIds(routes)
             assigned_multiple ==
                 \E i, j \in 1..Len(ids) : i < j /\ ids[i] = ids[j]
             expected_rides == {rs[i].id : i \in 1..Len(rs)}
             unassigned == expected_rides \ Range(ids)
         IN  ~(capacity_violation \/ dropoff_before_pickup
               \/ assigned_multiple \/ unassigned # {})

NoMetrics ==
    [rides_pooled |-> 0, vehicles_used |-> 0, average_detour_minutes |-> 0,
     pooling_efficiency |-> 0, total_distance_saved_km |-> 0]

\* _calculate_metrics; ratios and km in hundredths.  The detour term
\* duration - (duration / (n/2)) * (n/2) is zero for every route.
calculate_metrics(routes, original_rides) ==
    IF routes = <<>> \/ original_rides = <<>> THEN NoMetrics
    ELSE LET total_stops == SeqSum([r \in 1..Len(routes) |-> Len(routes[r].stops)])
             rides_pooled == total_stops \div 2
             vehicles_used == Len(routes)
             total_pooled_distance ==
                 SeqSum([r \in 1..Len(routes) |-> routes[r].total_distance_km])
         IN  [rides_pooled |-> rides_pooled,
              vehicles_used |-> vehicles_used,
              average_detour_minutes |-> 0,
              pooling_efficiency |-> RoundDiv(100 * rides_pooled, vehicles_used),
              total_distance_saved_km |-> RoundDiv(3 * total_pooled_distance, 10)]

\* PricingBreakdown without the upper bound of pooling_efficiency
PricingBreakdownValid_NoUpperBound(pricing) ==
    /\ pricing.baseline_driver_profit >= 0
    /\ pricing.optimized_driver_profit >= 0
    /\ pricing.total_user_savings >= 0
    /\ pricing.broker_commission >= 0
    /\ pricing.pooling_efficiency >= 0

\* PricingBreakdown field constraints (ge=0 everywhere, efficiency le=1)
PricingBreakdownValid(pricing) ==
    /\ pricing.baseline_driver_profit >= 0
    /\ pricing.optimized_driver_profit >= 0
    /\ pricing.total_user_savings >= 0
    /\ pricing.broker_commission >= 0
    /\ pricing.pooling_efficiency >= 0
    /\ pricing.pooling_efficiency <= PoolingEfficiencyLimit

\* the legacy bundle _routes_to_bundles builds for one route; the broker
\* commission revenue * 0.15 is unrounded: hundredths of a cent
route_to_bundle(route, rs) ==
    LET ride_ids == StopRideIds(route)
    IN  [ride_request_ids |-> ride_ids \cap {rs[i].id : i \in 1..Len(rs)},
         route |-> route,
         pricing |-> [baseline_driver_profit |-> route.revenue,
                      optimized_driver_profit |-> route.revenue,
                      total_user_savings |-> 0,
                      broker_commission |-> route.revenue * PLATFORM_FEE_RATE,
                      pooling_efficiency |-> Cardinality(ride_ids) * 100]]

routes_to_bundles(routes, rs) ==
    [r \in 1..Len(routes) |-> route_to_bundle(routes[r], rs)]

routes_to_bundles_raises(routes, rs) ==
    \E r \in 1..Len(routes) :
        ~PricingBreakdownValid(route_to_bundle(routes[r], rs).pricing)

\* routes after the pricing loop: route.revenue = earnings["gross_revenue"]
priced_routes(routes) ==
    [r \in 1..Len(routes) |->
        [routes[r] EXCEPT !.revenue = calculate_driver_earnings(routes[r]).gross_revenue]]

\* _empty_output reporting a failure
empty_output_Failed ==
    [status |-> "failed", routes |-> <<>>, total_cost |-> 0, total_savings |-> 0,
     metrics |-> NoMetrics, bundles |-> <<>>,
     total_rides_processed |-> 0, total_bundles_created |-> 0]

empty_output ==
    [status |-> "success", routes |-> <<>>, total_cost |-> 0, total_savings |-> 0,
     metrics |-> NoMetrics, bundles |-> <<>>,
     total_rides_processed |-> 0, total_bundles_created |-> 0]

failed_output ==
    [status |-> "failed", routes |-> <<>>, total_cost |-> 0, total_savings |-> 0,
     metrics |-> NoMetrics, bundles |-> <<>>,
     total_rides_processed |-> 0, total_bundles_created |-> 0]

\* the except branch of optimize(): solo routes for all rides
top_level_fallback(rs) ==
    LET routes == fallback_solo_routes(rs)
    IN  [status |-> "partial", routes |-> routes, total_cost |-> 0,
         total_savings |-> 0, metrics |-> NoMetrics, bundles |-> <<>>,
         total_rides_processed |-> Len(rs), total_bundles_created |-> Len(routes)]

\* steps 3 to 5 of optimize() and the construction of its result
normal_output(unpriced, rs) ==
    LET routes == priced_routes(unpriced)
        total_cost == SeqSum([r \in 1..Len(routes) |-> routes[r].revenue])
        total_savings == estimate_savings(rs, routes).total_savings
        metrics == calculate_metrics(routes, rs)
        is_valid == validate_solution(routes, rs)
        status == IF routes = <<>> THEN "failed"
                  ELSE IF ~is_valid THEN "partial"
                  ELSE "success"
    IN  [status |-> status, routes |-> routes, total_cost |-> total_cost,
         total_savings |-> total_savings, metrics |-> metrics,
         bundles |-> routes_to_bundles(routes, rs),
         total_rides_processed |-> Len(rs), total_bundles_created |-> Len(routes)]

\* ------------------------------------------------------ legacy entry point
\* compute_pooling_efficiency reaching its cap with the fourth ride
compute_pooling_efficiency_CapAtFour(cluster_size, total_rides) ==
    IF cluster_size <= 1 THEN 0
    ELSE IF cluster_size >= 4 THEN 50
    ELSE (cluster_size - 1) * 15

\* compute_pooling_efficiency, hundredths
compute_pooling_efficiency(cluster_size, total_rides) ==
    IF cluster_size <= 1 THEN 0
    ELSE Min2(50, (cluster_size - 1) * 15)

\* compute_flex_score, tenths
compute_flex_score(buffer_before_min, buffer_after_min) ==
    6 * buffer_before_min + 4 * buffer_after_min

\* compute_user_savings of a flex score in tenths; twelfths of a cent
compute_user_savings(flex_score) ==
    Min2(MAX_DISCOUNT_RATIO * FLEX_REFERENCE * (BASE_RIDE_COST \div 1000),
         flex_score * (BASE_RIDE_COST \div 100))

buffer_before_min(ride) == ride.time_window.preferred - ride.time_window.earliest

buffer_after_min(ride) == ride.time_window.latest - ride.time_window.preferred

\* compute_pricing: distance in hundredths of a km, efficiency in
\* hundredths, savings in twelfths of a cent; cents and ten-thousandths out
compute_pricing(route_distance_km, pooling_efficiency, total_user_savings) ==
    LET baseline == (route_distance_km * RATE_PER_KM) \div 100
    IN  [baseline_driver_profit |-> baseline,
         optimized_driver_profit |-> RoundDiv(baseline * (100 + pooling_efficiency), 100),
         total_user_savings |-> RoundDiv(total_user_savings, 12),
         broker_commission |->
             RoundDiv(baseline * (100 + pooling_efficiency) * BROKER_COMMISSION_RATE, 10000),
         pooling_efficiency |-> pooling_efficiency]

\* compute_cluster_time_window: the intersection, absent when empty
compute_cluster_time_window(cluster) ==
    LET starts == {cluster[i].time_window.earliest : i \in 1..Len(cluster)}
        ends == {cluster[i].time_window.latest : i \in 1..Len(cluster)}
        cluster_start == CHOOSE x \in starts : \A y \in starts : x >= y
        cluster_end == CHOOSE x \in ends : \A y \in ends : x <= y
    IN  IF cluster_start >= cluster_end
        THEN [present |-> FALSE, start |-> 0, end |-> 0]
        ELSE [present |-> TRUE, start |-> cluster_start, end |-> cluster_end]

cluster_savings(cluster) ==
    SeqSum([i \in 1..Len(cluster) |->
        compute_user_savings(compute_flex_score(buffer_before_min(cluster[i]),
                                                buffer_after_min(cluster[i])))])

legacy_bundle(cluster, total) ==
    LET route == solve_cluster(cluster)
    IN  [ride_request_ids |-> {cluster[i].id : i \in 1..Len(cluster)},
         route |-> route,
         pricing |-> compute_pricing(route.total_distance_km,
                                     compute_pooling_efficiency(Len(cluster), total),
                                     cluster_savings(cluster)),
         time_window |-> compute_cluster_time_window(cluster)]

\* optimize_rides: pool, then solve_cluster and price every cluster
optimize_rides(ride_requests) ==
    IF ride_requests = <<>>
    THEN [empty_output EXCEPT !.total_rides_processed = 0]
    ELSE LET clusters == pool_rides(ride_requests)
             bundles == [c \in 1..Len(clusters) |->
                            legacy_bundle(clusters[c], Len(ride_requests))]
         IN  [status |-> "success", routes |-> <<>>, total_cost |-> 0,
              total_savings |-> 0, metrics |-> NoMetrics, bundles |-> bundles,
              total_rides_processed |-> Len(ride_requests),
              total_bundles_created |-> Len(bundles)]

\* a cluster or a route of optimize_rides breaks a model constraint
optimize_rides_raises(ride_requests) ==
    LET clusters == pool_rides(ride_requests)
    IN  \E c \in 1..Len(clusters) :
            \/ ~VehicleRouteValid(solve_cluster(clusters[c]))
            \/ ~PricingBreakdownValid(
                   legacy_bundle(clusters[c], Len(ride_requests)).pricing)

\* ------------------------------------------------------------ the program
\* Ride shapes the inputs are drawn from.  A: the base ride.  B: same time,
\* pickup 50 km away.  C: three passengers, 2 km from A, earlier preferred
\* time.  BadTw: earliest = latest.  BadLat: latitude beyond 90 degrees.
\* BadLon: longitude 200.
Loc(lat, lon) == [lat |-> lat, lon |-> lon]

Tw(earliest, preferred, latest) ==
    [earliest |-> earliest, preferred |-> preferred, latest |-> latest]

Shape(pickup, dropoff, tw, n) ==
    [pickup |-> pickup, dropoff |-> dropoff, time_window |-> tw, num_passengers |-> n]

RideShapes ==
    { Shape(Loc(0, 20), Loc(10, 20), Tw(0, 5, 10), 1),
      Shape(Loc(50, 20), Loc(60, 20), Tw(0, 5, 10), 1),
      Shape(Loc(2, 20), Loc(8, 20), Tw(0, 4, 10), 3),
      Shape(Loc(0, 20), Loc(10, 20), Tw(5, 5, 5), 1),
      Shape(Loc(10010, 20), Loc(10020, 20), Tw(0, 5, 10), 1),
      Shape(Loc(1, 200), Loc(9, 200), Tw(0, 5, 10), 1) }

\* a ride request: a shape plus its unique id (its position in the input)
WithIds(shapes) ==
    [i \in 1..Len(shapes) |->
        [id |-> i, pickup |-> shapes[i].pickup, dropoff |-> shapes[i].dropoff,
         time_window |-> shapes[i].time_window,
         num_passengers |-> shapes[i].num_passengers]]

Inputs == UNION {{WithIds(sh) : sh \in [1..n -> RideShapes]} : n \in 0..MaxRides}

NoOutput ==
    [status |-> "none", routes |-> <<>>, total_cost |-> 0, total_savings |-> 0,
     metrics |-> NoMetrics, bundles |-> <<>>,
     total_rides_processed |-> 0, total_bundles_created |-> 0]

\* ------------------------------------------------- bidding lifecycle data
BundleIds == {"bundle_123", "bundle_456"}

\* no winner recorded, nothing returned
NoWinner == [company_id |-> "None", bid_value |-> 0]

\* BiddingState.get returns None
NoState == [phase |-> "IDLE", winner |-> NoWinner]

\* nothing has happened to a bundle: no start_commit call of the adapter,
\* no end_bidding that found no bids
NoBundleLog == [start_commit |-> 0, no_bids_end |-> FALSE]

NoLifecycleCall ==
    [op |-> "none", bundle_id |-> "none", raised |-> "none", result |-> NoWinner,
     before |-> [b \in BundleIds |-> NoState],
     log_before |-> [b \in BundleIds |-> NoBundleLog],
     bids |-> <<>>]

\* no call has been made before
NoCall == [calls |-> 0, groups |-> <<>>, output |-> NoOutput]

VARIABLES
    entry,        \* the function called: "service" is OptimizationService.optimize,
                  \* "legacy" is optimize_rides, otherwise the function's name
    args,         \* the arguments of the call other than the ride list
    previous,     \* what the previous call with the same ride list returned
    HAS_ORTOOLS,  \* whether the constraint-solver library could be imported
    input,        \* the list passed by the caller
    rides,        \* the local list `rides` of optimize(), filtered by validation
    pc,           \* position inside the call
    groups,       \* clusters returned by the pooler
    gi,           \* index of the next cluster to solve
    routes,       \* the local list `routes` of optimize()
    output,       \* the value returned to the caller
    called,       \* history: components invoked so far
    solved,       \* history: per cluster, how it was solved and its routes
    raised,       \* history: where the exception caught at the top level arose
    bidding_state,       \* lifecycle_controller._bidding_state._states
    blockchain_adapter,  \* lifecycle_controller._blockchain_adapter
    chain_bids,          \* per bundle, what the adapter's fetch_bids returns
    bundle_log,          \* history: per bundle, start_commit calls and failed endings
    last_call,           \* history: the last lifecycle call and what it found
    chain_blocks,        \* the AuctionFinalized events of every mined block
    last_polled_block,   \* the local of AiAgentService.start_monitoring
    is_running,          \* AiAgentService.is_running
    payments,            \* history: per event, invocations of record_payment
    polls                \* history: iterations of the monitoring loop so far

bidding_vars == <<bidding_state, blockchain_adapter, chain_bids, bundle_log, last_call>>

agent_vars == <<chain_blocks, last_polled_block, is_running, payments, polls>>

optimizer_vars == <<entry, args, previous, HAS_ORTOOLS, input, rides, pc, groups, gi,
                    routes, output, called, solved, raised>>

vars == <<optimizer_vars, bidding_vars, agent_vars>>

\* nothing of the optimizer is in use
OptimizerIdle ==
    /\ args = <<>>
    /\ previous = NoCall
    /\ HAS_ORTOOLS = FALSE
    /\ input = <<>>
    /\ rides = <<>>
    /\ pc = "start"
    /\ groups = <<>>
    /\ gi = 1
    /\ routes = <<>>
    /\ output = NoOutput
    /\ called = {}
    /\ solved = <<>>
    /\ raised = "none"

\* the lifecycle controller as imported, before any call
BiddingIdle ==
    /\ bidding_state = [b \in BundleIds |-> NoState]
    /\ blockchain_adapter = "None"
    /\ chain_bids = [b \in BundleIds |-> <<>>]
    /\ bundle_log = [b \in BundleIds |-> NoBundleLog]
    /\ last_call = NoLifecycleCall

\* no agent constructed
AgentIdle ==
    /\ chain_blocks = <<>>
    /\ last_polled_block = 0
    /\ is_running = FALSE
    /\ payments = <<>>
    /\ polls = 0

Init ==
    /\ entry \in {"service", "legacy"}
    /\ args = <<>>
    /\ previous = NoCall
    /\ HAS_ORTOOLS \in BOOLEAN
    /\ entry = "legacy" => ~HAS_ORTOOLS
    /\ input \in Inputs
    /\ rides = input
    /\ pc = "start"
    /\ groups = <<>>
    /\ gi = 1
    /\ routes = <<>>
    /\ output = NoOutput
    /\ called = {}
    /\ solved = <<>>
    /\ raised = "none"
    /\ BiddingIdle
    /\ AgentIdle

\* optimize(), lines 113-124: empty input, validation, filtering
Validate ==
    /\ pc = "start"
    /\ entry = "service"
    /\ IF input = <<>>
       THEN /\ output' = empty_output
            /\ pc' = "done"
            /\ rides' = rides
       ELSE IF valid_rides(input) = <<>>
       THEN /\ output' = failed_output
            /\ pc' = "done"
            /\ rides' = <<>>
       ELSE /\ rides' = valid_rides(input)
            /\ pc' = "pool"
            /\ output' = output
    /\ UNCHANGED <<bidding_vars, agent_vars, entry, args, previous, HAS_ORTOOLS, input, groups, gi, routes, called, solved, raised>>

\* Step 1: the pooler supplied to the constructor returns the groups, or
\* raises and the top-level handler answers
Pool ==
    /\ pc = "pool"
    /\ called' = called \cup {"pooler"}
    /\ \/ /\ groups' = find_compatible_groups(rides, DefaultMaxGroupSize)
          /\ pc' = "solve"
          /\ UNCHANGED <<output, raised>>
       \/ /\ raised' = "pooling"
          /\ output' = top_level_fallback(rides)
          /\ pc' = "done"
          /\ UNCHANGED groups
    /\ UNCHANGED <<bidding_vars, agent_vars, entry, args, previous, HAS_ORTOOLS, input, rides, gi, routes, solved>>

\* Routes _optimize_single_pool may return for a group of two or more
\* rides, by the way the solver call ends
SolverOutcomes(group) ==
    {[how |-> "greedy", routes |-> <<solve_greedy(group)[1]>>]}
    \cup (IF HAS_ORTOOLS
          THEN {[how |-> "ortools", routes |-> <<r>>] : r \in ORToolsRoutes(group)}
          ELSE {})
    \cup (IF VehicleRouteValid(solve_cluster(group))
          THEN {[how |-> "legacy", routes |-> <<solve_cluster(group)>>]}
          ELSE {[how |-> "raised", routes |-> fallback_solo_routes(group)]})
    \cup {[how |-> "raised", routes |-> fallback_solo_routes(group)]}

\* SolveGroup without the short-circuit for a group of one ride
SolveGroup_AlwaysSolver ==
    /\ pc = "solve"
    /\ gi <= Len(groups)
    /\ LET group == groups[gi] IN
       \E o \in SolverOutcomes(group) :
           /\ routes' = routes \o o.routes
           /\ solved' = Append(solved, o)
           /\ called' = called \cup {"solver"}
    /\ gi' = gi + 1
    /\ UNCHANGED <<bidding_vars, agent_vars, entry, args, previous, HAS_ORTOOLS, input, rides, pc, groups, output, raised>>

\* Step 2, one iteration of the loop over the groups
SolveGroup ==
    /\ pc = "solve"
    /\ gi <= Len(groups)
    /\ LET group == groups[gi] IN
       \E o \in (IF Len(group) = 1
                 THEN {[how |-> "solo", routes |-> <<create_solo_route(group[1])>>]}
                 ELSE SolverOutcomes(group)) :
           /\ routes' = routes \o o.routes
           /\ solved' = Append(solved, o)
           /\ called' = IF Len(group) = 1 THEN called ELSE called \cup {"solver"}
    /\ gi' = gi + 1
    /\ UNCHANGED <<bidding_vars, agent_vars, entry, args, previous, HAS_ORTOOLS, input, rides, pc, groups, output, raised>>

\* Steps 3 to 5 and the result; an exception of the pricing engine or of
\* the bundle construction ends in the top-level handler
Finish ==
    /\ pc = "solve"
    /\ gi > Len(groups)
    /\ called' = called \cup {"pricing"}
    /\ \/ /\ ~routes_to_bundles_raises(priced_routes(routes), rides)
          /\ output' = normal_output(routes, rides)
          /\ UNCHANGED raised
       \/ /\ routes_to_bundles_raises(priced_routes(routes), rides)
          /\ raised' = "bundles"
          /\ output' = top_level_fallback(rides)
       \/ /\ raised' = "pricing"
          /\ output' = top_level_fallback(rides)
    /\ pc' = "done"
    /\ UNCHANGED <<bidding_vars, agent_vars, entry, args, previous, HAS_ORTOOLS, input, rides, groups, gi, routes, solved>>

\* OptimizeRides adding its bundles to those of the previous call
OptimizeRides_KeepsBundles ==
    /\ pc = "start"
    /\ entry = "legacy"
    /\ groups' = pool_rides(input)
    /\ output' = IF input # <<>> /\ optimize_rides_raises(input)
                 THEN [NoOutput EXCEPT !.status = "exception"]
                 ELSE LET new == optimize_rides(input)
                          bundles == previous.output.bundles \o new.bundles
                      IN  [new EXCEPT !.bundles = bundles,
                                      !.total_bundles_created = Len(bundles)]
    /\ called' = IF input = <<>> THEN called ELSE called \cup {"pooler", "solver"}
    /\ pc' = "done"
    /\ UNCHANGED <<bidding_vars, agent_vars, entry, args, previous, HAS_ORTOOLS, input, rides, gi, routes,
                   solved, raised>>

\* the legacy synchronous entry point, whole call
OptimizeRides ==
    /\ pc = "start"
    /\ entry = "legacy"
    /\ groups' = pool_rides(input)
    /\ output' = IF input # <<>> /\ optimize_rides_raises(input)
                 THEN [NoOutput EXCEPT !.status = "exception"]
                 ELSE optimize_rides(input)
    /\ called' = IF input = <<>> THEN called ELSE called \cup {"pooler", "solver"}
    /\ pc' = "done"
    /\ UNCHANGED <<bidding_vars, agent_vars, entry, args, previous, HAS_ORTOOLS, input, rides, gi, routes, solved, raised>>

\* the call ran with the collaborators of the code and without the
\* constraint solver: no injected fault, every cluster solved by the
\* short-circuit or by the greedy fallback
DeterministicPath ==
    /\ ~HAS_ORTOOLS
    /\ raised \in {"none", "bundles"}
    /\ \A g \in 1..Len(solved) : solved[g].how \in {"solo", "greedy"}

\* the caller keeps the result of a call along the deterministic path and
\* calls once more with the same list
CallAgain ==
    /\ pc = "done"
    /\ entry = "legacy" \/ (entry = "service" /\ DeterministicPath)
    /\ previous.calls = 0
    /\ previous' = [calls |-> 1, groups |-> groups, output |-> output]
    /\ pc' = "start"
    /\ rides' = input
    /\ groups' = <<>>
    /\ gi' = 1
    /\ routes' = <<>>
    /\ output' = NoOutput
    /\ called' = {}
    /\ solved' = <<>>
    /\ raised' = "none"
    /\ UNCHANGED <<bidding_vars, agent_vars, entry, args, HAS_ORTOOLS, input>>

Next == Validate \/ Pool \/ SolveGroup \/ Finish \/ OptimizeRides \/ CallAgain

Spec == Init /\ [][Next]_vars

\* ------------------------------------------------- the pooler called alone
\* Ride shapes for calls of the pooler: pickups at 0, 2, 4 and 50 km, three
\* windows of which the first and the third only touch, one to four
\* passengers.
PoolShapes ==
    { Shape(Loc(2, 20), Loc(10, 20), Tw(4, 5, 16), 1),
      Shape(Loc(0, 20), Loc(10, 20), Tw(0, 6, 10), 1),
      Shape(Loc(4, 20), Loc(10, 20), Tw(10, 12, 20), 1),
      Shape(Loc(4, 20), Loc(12, 20), Tw(0, 6, 10), 2),
      Shape(Loc(50, 20), Loc(60, 20), Tw(0, 6, 10), 1),
      Shape(Loc(2, 20), Loc(10, 20), Tw(10, 12, 20), 3),
      Shape(Loc(0, 20), Loc(10, 20), Tw(4, 5, 16), 4) }

PoolInputs ==
    UNION {{WithIds(sh) : sh \in [1..n -> PoolShapes]} : n \in 0..MaxPoolRides}

PoolInit ==
    /\ entry = "find_compatible_groups"
    /\ args \in [max_group_size : 1..MaxGroupSizeArg]
    /\ previous = NoCall
    /\ HAS_ORTOOLS = FALSE
    /\ input \in PoolInputs
    /\ rides = input
    /\ pc = "start"
    /\ groups = <<>>
    /\ gi = 1
    /\ routes = <<>>
    /\ output = NoOutput
    /\ called = {}
    /\ solved = <<>>
    /\ raised = "none"
    /\ BiddingIdle
    /\ AgentIdle

\* RidePooler.find_compatible_groups(rides, max_group_size), whole call
FindCompatibleGroups ==
    /\ pc = "start"
    /\ entry = "find_compatible_groups"
    /\ groups' = find_compatible_groups(input, args.max_group_size)
    /\ called' = called \cup {"pooler"}
    /\ pc' = "done"
    /\ UNCHANGED <<bidding_vars, agent_vars, entry, args, previous, HAS_ORTOOLS, input, rides, gi, routes, output,
                   solved, raised>>

PoolNext == FindCompatibleGroups

PoolSpec == PoolInit /\ [][PoolNext]_vars

\* ------------------------------------------ the pricing engine called alone
\* Ride shapes of the priced lists: three rides that one vehicle can serve
\* together, with one or two passengers.
PricedShapes ==
    { Shape(Loc(2, 20), Loc(10, 20), Tw(4, 5, 16), 1),
      Shape(Loc(0, 20), Loc(10, 20), Tw(0, 6, 10), 1),
      Shape(Loc(4, 20), Loc(12, 20), Tw(0, 6, 10), 2) }

PricedInputs ==
    UNION {{WithIds(sh) : sh \in [1..n -> PricedShapes]} : n \in 1..MaxPricedRides}

\* routes one vehicle can be given for a cluster: the short-circuit route of
\* a single ride, a route of the constraint solver otherwise
ClusterRoutes(rs) ==
    IF Len(rs) = 1 THEN {create_solo_route(rs[1])} ELSE ORToolsRoutes(rs)

\* route lists for a ride list: its first j rides share one vehicle, every
\* other ride has its own
RoutePlans(rs) ==
    UNION {{<<r>> \o fallback_solo_routes(SubSeq(rs, j + 1, Len(rs))) :
               r \in ClusterRoutes(SubSeq(rs, 1, j))} : j \in 1..Len(rs)}

\* base prices in cents handed to calculate_pooled_price: negative, zero,
\* prices whose discounted value has a fraction of a cent, the 25.50 of
\* the docstring
BasePrices == {0 - 100, 0, 1, 5, 15, 99, 999, 2550}

NoPrice == [raised |-> FALSE, price |-> 0]

PriceInit ==
    /\ entry \in {"calculate_pooled_price", "pricing", "compute_pooling_efficiency"}
    /\ previous = NoCall
    /\ HAS_ORTOOLS = TRUE
    /\ \/ /\ entry = "calculate_pooled_price"
          /\ args \in [base_price : BasePrices,
                       num_riders_in_pool : 0..MaxRidersInPool]
          /\ input = <<>>
          /\ routes = <<>>
          /\ output = NoPrice
       \/ /\ entry = "compute_pooling_efficiency"
          /\ args \in [cluster_size : 0..MaxClusterSizeArg,
                       total_rides : 0..MaxClusterSizeArg]
          /\ input = <<>>
          /\ routes = <<>>
          /\ output = [efficiency |-> 0]
       \/ /\ entry = "pricing"
          /\ args = <<>>
          /\ input \in PricedInputs
          /\ routes \in RoutePlans(input)
          /\ output = NoOutput
    /\ rides = input
    /\ pc = "start"
    /\ groups = <<>>
    /\ gi = 1
    /\ called = {}
    /\ solved = <<>>
    /\ raised = "none"
    /\ BiddingIdle
    /\ AgentIdle

\* PricingEngine.calculate_pooled_price(base_price, num_riders_in_pool),
\* whole call
CalculatePooledPrice ==
    /\ pc = "start"
    /\ entry = "calculate_pooled_price"
    /\ output' =
          IF calculate_pooled_price_raises(args.base_price, args.num_riders_in_pool)
          THEN [raised |-> TRUE, price |-> 0]
          ELSE [raised |-> FALSE,
                price |-> calculate_pooled_price(args.base_price,
                                                 args.num_riders_in_pool)]
    /\ called' = called \cup {"pricing"}
    /\ pc' = "done"
    /\ UNCHANGED <<bidding_vars, agent_vars, entry, args, previous, HAS_ORTOOLS, input, rides, groups, gi, routes,
                   solved, raised>>

\* Step 3 of optimize(): the earnings of every route, their sum, and the
\* savings estimate
PriceRoutes ==
    /\ pc = "start"
    /\ entry = "pricing"
    /\ LET earnings == [r \in 1..Len(routes) |-> calculate_driver_earnings(routes[r])]
           priced == priced_routes(routes)
       IN  /\ routes' = priced
           /\ output' =
                 [earnings |-> earnings,
                  total_cost |-> SeqSum([r \in 1..Len(routes) |->
                                            earnings[r].gross_revenue]),
                  savings_info |-> estimate_savings(rides, priced)]
    /\ called' = called \cup {"pricing"}
    /\ pc' = "done"
    /\ UNCHANGED <<bidding_vars, agent_vars, entry, args, previous, HAS_ORTOOLS, input, rides, groups, gi, solved,
                   raised>>

\* compute_pooling_efficiency(cluster_size, total_rides), whole call
ComputePoolingEfficiency ==
    /\ pc = "start"
    /\ entry = "compute_pooling_efficiency"
    /\ output' = [efficiency |-> compute_pooling_efficiency(args.cluster_size,
                                                            args.total_rides)]
    /\ called' = called \cup {"pricing"}
    /\ pc' = "done"
    /\ UNCHANGED <<bidding_vars, agent_vars, entry, args, previous, HAS_ORTOOLS, input, rides, groups, gi, routes,
                   solved, raised>>

PriceNext == CalculatePooledPrice \/ PriceRoutes \/ ComputePoolingEfficiency

PriceSpec == PriceInit /\ [][PriceNext]_vars

\* ------------------------------------------- bidding lifecycle controller
\* the bids companies place: those of the test adapter, in cents
Bids ==
    { [company_id |-> "company_001", bid_value |-> 16500],
      [company_id |-> "company_002", bid_value |-> 15000] }

\* max(bids, key=bid_value): the first bid of the highest value
RECURSIVE MaxBid(_)
MaxBid(bids) ==
    IF Len(bids) = 1 THEN bids[1]
    ELSE LET rest == MaxBid(Tail(bids))
         IN  IF bids[1].bid_value >= rest.bid_value THEN bids[1] ELSE rest

\* select_winner: what fetch_bids returns, an empty list without adapter
fetched_bids(bundle_id) ==
    IF blockchain_adapter = "None" THEN <<>> ELSE chain_bids[bundle_id]

select_winner_raises(bundle_id) == fetched_bids(bundle_id) = <<>>

select_winner(bundle_id) == MaxBid(fetched_bids(bundle_id))

\* the record of a lifecycle call: what it found, what it did, and for
\* end_bidding the bids it fetched
LifecycleCall(op, bundle_id, exc, result) ==
    [op |-> op, bundle_id |-> bundle_id, raised |-> exc, result |-> result,
     before |-> bidding_state, log_before |-> bundle_log,
     bids |-> IF op = "end_bidding" THEN fetched_bids(bundle_id) ELSE <<>>]

\* the bundles in a fixed order
BundleOrder == <<"bundle_123", "bundle_456">>

BiddingInit ==
    /\ entry = "lifecycle_controller"
    /\ OptimizerIdle
    /\ BiddingIdle
    /\ AgentIdle

\* set_blockchain_adapter(adapter)
SetBlockchainAdapter(adapter) ==
    /\ blockchain_adapter # adapter
    /\ blockchain_adapter' = adapter
    /\ UNCHANGED <<bidding_state, chain_bids, bundle_log, last_call>>
    /\ UNCHANGED <<optimizer_vars, agent_vars>>

\* a company's bid reaches the chain
SubmitBid(bundle_id, bid) ==
    /\ SeqSum([i \in 1..Len(BundleOrder) |-> Len(chain_bids[BundleOrder[i]])]) < MaxBids
    /\ chain_bids' = [chain_bids EXCEPT ![bundle_id] = Append(@, bid)]
    /\ UNCHANGED <<bidding_state, blockchain_adapter, bundle_log, last_call>>
    /\ UNCHANGED <<optimizer_vars, agent_vars>>

\* start_bidding without the test for recorded state
StartBidding_Restart(bundle_id) ==
    /\ IF blockchain_adapter = "None"
       THEN /\ bidding_state' = [bidding_state EXCEPT ![bundle_id] =
                                    [phase |-> "COMMIT", winner |-> NoWinner]]
            /\ last_call' = LifecycleCall("start_bidding", bundle_id, "none", NoWinner)
            /\ UNCHANGED <<blockchain_adapter, chain_bids, bundle_log>>
       ELSE /\ SeqSum([i \in 1..Len(BundleOrder) |->
                           bundle_log[BundleOrder[i]].start_commit]) < MaxAdapterCalls
            /\ bundle_log' = [bundle_log EXCEPT ![bundle_id].start_commit = @ + 1]
            /\ bidding_state' = [bidding_state EXCEPT ![bundle_id] =
                                    [phase |-> "COMMIT", winner |-> NoWinner]]
            /\ last_call' = LifecycleCall("start_bidding", bundle_id, "none", NoWinner)
            /\ UNCHANGED <<blockchain_adapter, chain_bids>>
    /\ UNCHANGED <<optimizer_vars, agent_vars>>

\* start_bidding(bundle_id); the adapter's transaction can fail
StartBidding(bundle_id) ==
    /\ IF bidding_state[bundle_id] # NoState
       THEN /\ last_call' = LifecycleCall("start_bidding", bundle_id, "ValueError", NoWinner)
            /\ UNCHANGED <<bidding_state, blockchain_adapter, chain_bids, bundle_log>>
       ELSE IF blockchain_adapter = "None"
       THEN /\ bidding_state' = [bidding_state EXCEPT ![bundle_id].phase = "COMMIT"]
            /\ last_call' = LifecycleCall("start_bidding", bundle_id, "none", NoWinner)
            /\ UNCHANGED <<blockchain_adapter, chain_bids, bundle_log>>
       ELSE /\ SeqSum([i \in 1..Len(BundleOrder) |->
                           bundle_log[BundleOrder[i]].start_commit]) < MaxAdapterCalls
            /\ bundle_log' = [bundle_log EXCEPT ![bundle_id].start_commit = @ + 1]
            /\ \/ /\ bidding_state' = [bidding_state EXCEPT ![bundle_id].phase = "COMMIT"]
                  /\ last_call' = LifecycleCall("start_bidding", bundle_id, "none", NoWinner)
               \/ /\ last_call' = LifecycleCall("start_bidding", bundle_id,
                                                 "AdapterError", NoWinner)
                  /\ UNCHANGED bidding_state
            /\ UNCHANGED <<blockchain_adapter, chain_bids>>
    /\ UNCHANGED <<optimizer_vars, agent_vars>>

\* transition_to_reveal(bundle_id)
TransitionToReveal(bundle_id) ==
    /\ IF bidding_state[bundle_id].phase # "COMMIT"
       THEN /\ last_call' = LifecycleCall("transition_to_reveal", bundle_id,
                                             "ValueError", NoWinner)
            /\ UNCHANGED <<bidding_state, blockchain_adapter, chain_bids, bundle_log>>
       ELSE /\ bidding_state' = [bidding_state EXCEPT ![bundle_id].phase = "REVEAL"]
            /\ last_call' = LifecycleCall("transition_to_reveal", bundle_id, "none", NoWinner)
            /\ UNCHANGED <<blockchain_adapter, chain_bids, bundle_log>>
    /\ UNCHANGED <<optimizer_vars, agent_vars>>

\* end_bidding recording FINALIZED before it selects the winner
EndBidding_FinalizeFirst(bundle_id) ==
    /\ IF bidding_state[bundle_id].phase \notin {"COMMIT", "REVEAL"}
       THEN /\ last_call' = LifecycleCall("end_bidding", bundle_id, "ValueError", NoWinner)
            /\ UNCHANGED <<bidding_state, blockchain_adapter, chain_bids, bundle_log>>
       ELSE IF select_winner_raises(bundle_id)
       THEN /\ bidding_state' = [bidding_state EXCEPT ![bundle_id].phase = "FINALIZED"]
            /\ last_call' = LifecycleCall("end_bidding", bundle_id, "ValueError", NoWinner)
            /\ bundle_log' = [bundle_log EXCEPT ![bundle_id].no_bids_end = TRUE]
            /\ UNCHANGED <<blockchain_adapter, chain_bids>>
       ELSE /\ bidding_state' =
                  [bidding_state EXCEPT ![bundle_id] =
                      [phase |-> "FINALIZED", winner |-> select_winner(bundle_id)]]
            /\ last_call' = LifecycleCall("end_bidding", bundle_id, "none",
                                          select_winner(bundle_id))
            /\ UNCHANGED <<blockchain_adapter, chain_bids, bundle_log>>
    /\ UNCHANGED <<optimizer_vars, agent_vars>>

\* end_bidding(bundle_id)
EndBidding(bundle_id) ==
    /\ IF bidding_state[bundle_id].phase \notin {"COMMIT", "REVEAL"}
          \/ select_winner_raises(bundle_id)
       THEN /\ last_call' = LifecycleCall("end_bidding", bundle_id, "ValueError", NoWinner)
            /\ bundle_log' =
                  IF bidding_state[bundle_id].phase \in {"COMMIT", "REVEAL"}
                  THEN [bundle_log EXCEPT ![bundle_id].no_bids_end = TRUE]
                  ELSE bundle_log
            /\ UNCHANGED <<bidding_state, blockchain_adapter, chain_bids>>
       ELSE /\ bidding_state' =
                  [bidding_state EXCEPT ![bundle_id] =
                      [phase |-> "FINALIZED", winner |-> select_winner(bundle_id)]]
            /\ last_call' = LifecycleCall("end_bidding", bundle_id, "none",
                                          select_winner(bundle_id))
            /\ UNCHANGED <<blockchain_adapter, chain_bids, bundle_log>>
    /\ UNCHANGED <<optimizer_vars, agent_vars>>

\* reset_state()
ResetState ==
    /\ bidding_state' = [b \in BundleIds |-> NoState]
    /\ last_call' = [NoLifecycleCall EXCEPT !.op = "reset_state"]
    /\ UNCHANGED <<blockchain_adapter, chain_bids, bundle_log>>
    /\ UNCHANGED <<optimizer_vars, agent_vars>>

BiddingNext ==
    \/ \E adapter \in {"None", "adapter"} : SetBlockchainAdapter(adapter)
    \/ \E b \in BundleIds, bid \in Bids : SubmitBid(b, bid)
    \/ \E b \in BundleIds : StartBidding(b)
    \/ \E b \in BundleIds : TransitionToReveal(b)
    \/ \E b \in BundleIds : EndBidding(b)
    \/ ResetState

BiddingSpec == BiddingInit /\ [][BiddingNext]_vars

\* ------------------------------------------------------- settlement agent
ZeroAddress == "0x0000000000000000000000000000000000000000"

\* winners of AuctionFinalized events: none (unsold) or a company's address
Winners == {ZeroAddress, "0xWinner"}

\* the AuctionFinalized events one block can hold, in log order
BlockContents ==
    UNION {[1..n -> [winner : Winners]] : n \in 0..MaxEventsPerBlock}

NoPayments == [invoked |-> 0, recorded |-> 0]

\* get_logs(fromBlock, toBlock): the events as <<block, index>>, in order
RECURSIVE get_logs(_, _)
get_logs(fromBlock, toBlock) ==
    IF fromBlock > toBlock THEN <<>>
    ELSE [i \in 1..Len(chain_blocks[fromBlock]) |-> <<fromBlock, i>>]
         \o get_logs(fromBlock + 1, toBlock)

EventWinner(e) == chain_blocks[e[1]][e[2]].winner

\* the payments after processing events[i..] in order; failing = 0 when no
\* record_payment raises, else the position in events of the event whose
\* record_payment raises, which ends the batch
RECURSIVE process_events(_, _, _, _)
process_events(events, i, failing, pay) ==
    IF i > Len(events) THEN pay
    ELSE LET e == events[i] IN
         IF EventWinner(e) = ZeroAddress
         THEN process_events(events, i + 1, failing, pay)
         ELSE IF i = failing
         THEN [pay EXCEPT ![e[1]][e[2]].invoked = @ + 1]
         ELSE process_events(events, i + 1, failing,
                  [pay EXCEPT ![e[1]][e[2]].invoked = @ + 1,
                              ![e[1]][e[2]].recorded = @ + 1])

\* positions of the events that reach record_payment
Payable(events) == {i \in 1..Len(events) : EventWinner(events[i]) # ZeroAddress}

\* AiAgentService(adapter) constructed and start_monitoring entered on a
\* chain that may already hold a block
AgentInit ==
    /\ entry = "start_monitoring"
    /\ OptimizerIdle
    /\ BiddingIdle
    /\ chain_blocks \in {<<>>} \cup {<<blk>> : blk \in BlockContents}
    /\ last_polled_block = Len(chain_blocks)
    /\ is_running = TRUE
    /\ payments = [b \in 1..Len(chain_blocks) |->
                      [i \in 1..Len(chain_blocks[b]) |-> NoPayments]]
    /\ polls = 0

\* the chain grows by one block
MineBlock(blk) ==
    /\ Len(chain_blocks) < MaxBlocks
    /\ chain_blocks' = Append(chain_blocks, blk)
    /\ payments' = Append(payments, [i \in 1..Len(blk) |-> NoPayments])
    /\ UNCHANGED <<last_polled_block, is_running, polls>>
    /\ UNCHANGED <<optimizer_vars, bidding_vars>>

\* one iteration of the loop of start_monitoring that finds no new block
PollIdle ==
    /\ is_running
    /\ polls < MaxPolls
    /\ Len(chain_blocks) <= last_polled_block
    /\ polls' = polls + 1
    /\ UNCHANGED <<chain_blocks, last_polled_block, is_running, payments>>
    /\ UNCHANGED <<optimizer_vars, bidding_vars>>

\* one iteration that fetches the new events and settles all of them
PollBatch ==
    /\ is_running
    /\ polls < MaxPolls
    /\ LET current_block == Len(chain_blocks)
           events == get_logs(last_polled_block + 1, current_block)
       IN  /\ current_block > last_polled_block
           /\ payments' = process_events(events, 1, 0, payments)
           /\ last_polled_block' = current_block
    /\ polls' = polls + 1
    /\ UNCHANGED <<chain_blocks, is_running>>
    /\ UNCHANGED <<optimizer_vars, bidding_vars>>

\* one iteration in which record_payment raises for one event: the except
\* clause logs the error and last_polled_block keeps its value
PollBatchRaises ==
    /\ is_running
    /\ polls < MaxPolls
    /\ LET current_block == Len(chain_blocks)
           events == get_logs(last_polled_block + 1, current_block)
       IN  /\ current_block > last_polled_block
           /\ \E failing \in Payable(events) :
                 payments' = process_events(events, 1, failing, payments)
    /\ polls' = polls + 1
    /\ UNCHANGED <<chain_blocks, last_polled_block, is_running>>
    /\ UNCHANGED <<optimizer_vars, bidding_vars>>

\* stop()
StopMonitoring ==
    /\ is_running
    /\ is_running' = FALSE
    /\ UNCHANGED <<chain_blocks, last_polled_block, payments, polls>>
    /\ UNCHANGED <<optimizer_vars, bidding_vars>>

AgentNext ==
    \/ \E blk \in BlockContents : MineBlock(blk)
    \/ PollIdle
    \/ PollBatch
    \/ PollBatchRaises
    \/ StopMonitoring

AgentSpec == AgentInit /\ [][AgentNext]_vars

\* ---------------------------------------------------------------- properties
\* a ride request that satisfies the data model: earliest < latest and both
\* locations inside the latitude and longitude ranges
RideWellFormed(ride) ==
    /\ ride.time_window.earliest < ride.time_window.latest
    /\ \A loc \in {ride.pickup, ride.dropoff} :
          /\ 0 - LatLimitKm <= loc.lat /\ loc.lat <= LatLimitKm
          /\ 0 - LonLimitDeg <= loc.lon /\ loc.lon <= LonLimitDeg

RideIds(rs) == {rs[i].id : i \in 1..Len(rs)}

\* routes handed back to the caller, directly or inside a legacy bundle
ReturnedRoutes ==
    Range(output.routes) \cup {output.bundles[b].route : b \in 1..Len(output.bundles)}

\* passengers on board after the first n stops of a route
PassengersAfter(route, n) ==
    SeqSum([i \in 1..n |->
        IF route.stops[i].type = "pickup" THEN route.stops[i].num_passengers
        ELSE 0 - route.stops[i].num_passengers])

\* number of pickup stops for a ride id over a list of routes
PickupCount(rts, id) ==
    SeqSum([r \in 1..Len(rts) |->
        Cardinality({i \in 1..Len(rts[r].stops) :
            rts[r].stops[i].type = "pickup" /\ rts[r].stops[i].ride_id = id})])

CoverageOf(rts, rs) ==
    /\ \A id \in RideIds(rs) : PickupCount(rts, id) = 1
    /\ \A r \in 1..Len(rts) : StopRideIds(rts[r]) \subseteq RideIds(rs)

CapacityOk(route) ==
    \A n \in 0..Len(route.stops) :
        PassengersAfter(route, n) >= 0 /\ PassengersAfter(route, n) <= VEHICLE_CAPACITY

StopsOf(route, id, type) ==
    {i \in 1..Len(route.stops) :
        route.stops[i].ride_id = id /\ route.stops[i].type = type}

PrecedenceOk(route) ==
    \A id \in StopRideIds(route) :
        /\ Cardinality(StopsOf(route, id, "pickup")) = 1
        /\ Cardinality(StopsOf(route, id, "dropoff")) = 1
        /\ \A p \in StopsOf(route, id, "pickup") :
           \A d \in StopsOf(route, id, "dropoff") :
              route.stops[p].sequence < route.stops[d].sequence /\ p < d

ServiceDone == pc = "done" /\ entry = "service"

\* C1 (claim as stated; the greedy solver path refutes it): for a non-empty
\* list of well-formed rides, whatever solving path optimize() takes, the
\* pickup stops of the returned routes name every input ride exactly once.
C1_Coverage ==
    (ServiceDone /\ input # <<>> /\ \A i \in 1..Len(input) : RideWellFormed(input[i]))
        => CoverageOf(output.routes, input)

\* find_compatible_groups has just returned its clusters
Pooled == "pooler" \in called /\ pc = "solve" /\ solved = <<>>

\* C2: the clusters returned by find_compatible_groups partition its input:
\* every ride is in exactly one cluster, no cluster is empty, and a ride
\* that can be pooled with no other ride is a singleton cluster.
C2_PoolerPartition ==
    Pooled =>
        /\ Len(Flatten(groups)) = Len(rides)
        /\ Range(Flatten(groups)) = Range(rides)
        /\ \A g \in 1..Len(groups) : groups[g] # <<>>
        /\ \A i \in 1..Len(rides) :
              (\A j \in 1..Len(rides) :
                  i # j => ~can_pool(rides[i], rides[j]) /\ ~can_pool(rides[j], rides[i]))
              => \E g \in 1..Len(groups) : groups[g] = <<rides[i]>>

C2_Witness ==
    /\ Pooled
    /\ \E g \in 1..Len(groups) : Len(groups[g]) >= 2
    /\ \E g \in 1..Len(groups) : Len(groups[g]) = 1
    /\ Len(rides) >= 3

\* C3: in every route built for a pooled cluster, by solve_cluster, by the
\* solo-route constructor or by the solver, and in every returned route,
\* the passenger count after every prefix of stops is within 0..4.
C3_Capacity ==
    \A route \in ReturnedRoutes \cup Range(routes) : CapacityOk(route)

C3_Witness ==
    /\ pc = "done"
    /\ \E route \in ReturnedRoutes :
          /\ Len(route.stops) >= 4
          /\ \E n \in 1..Len(route.stops) : PassengersAfter(route, n) = VEHICLE_CAPACITY

\* C4: in every returned route each ride id has exactly one pickup stop and
\* exactly one dropoff stop, and the pickup's sequence index is strictly
\* less than the dropoff's.
C4_Precedence ==
    \A route \in ReturnedRoutes \cup Range(routes) : PrecedenceOk(route)

C4_Witness ==
    /\ pc = "done"
    /\ \E route \in ReturnedRoutes : Cardinality(StopRideIds(route)) >= 3

\* aggregate validation as the specification words it, over the rides that
\* entered the pipeline
ViolationFound(rts, rs) ==
    \/ \E id \in RideIds(rs) : PickupCount(rts, id) # 1
    \/ \E r \in 1..Len(rts) : \E n \in 1..Len(rts[r].stops) :
          PassengersAfter(rts[r], n) > VEHICLE_CAPACITY
    \/ \E r \in 1..Len(rts) : \E d \in 1..Len(rts[r].stops) :
          /\ rts[r].stops[d].type = "dropoff"
          /\ ~\E p \in 1..(d - 1) :
                 /\ rts[r].stops[p].type = "pickup"
                 /\ rts[r].stops[p].ride_id = rts[r].stops[d].ride_id

\* C5: when optimize() of a non-empty input returns normally, the status is
\* "failed" iff there are no routes, "partial" iff there are routes and the
\* aggregate validation found a violation, "success" otherwise; and
\* "success" always means every ride is picked up exactly once, no prefix
\* load exceeds 4 and no dropoff precedes its pickup.
C5_StatusRule ==
    (ServiceDone /\ input # <<>>) =>
        /\ raised = "none" =>
              /\ output.status = "failed" <=> output.routes = <<>>
              /\ output.status = "partial" <=>
                     (output.routes # <<>> /\ ViolationFound(output.routes, rides))
              /\ output.status = "success" <=>
                     (output.routes # <<>> /\ ~ViolationFound(output.routes, rides))
        /\ output.status = "success" =>
              /\ CoverageOf(output.routes, rides)
              /\ \A r \in 1..Len(output.routes) :
                    CapacityOk(output.routes[r]) /\ PrecedenceOk(output.routes[r])

C5_Witness ==
    /\ ServiceDone
    /\ raised = "none"
    /\ output.status = "partial"
    /\ output.routes # <<>>

\* a two-stop route serving one ride: its pickup, then its dropoff
IsSoloRouteOf(route, ride) ==
    /\ Len(route.stops) = 2
    /\ route.stops[1].ride_id = ride.id /\ route.stops[1].type = "pickup"
    /\ route.stops[1].location = ride.pickup
    /\ route.stops[2].ride_id = ride.id /\ route.stops[2].type = "dropoff"
    /\ route.stops[2].location = ride.dropoff

Unpriced(route) == [route EXCEPT !.revenue = 0]

\* C7 (claim as stated; refuted): when solving one cluster raised and no
\* other component raised, the output holds the solo routes of that cluster
\* and the route produced for every other cluster.
C7_PartialFailureIsolation ==
    (/\ ServiceDone
     /\ raised \notin {"pooling", "pricing"}
     /\ \E g \in 1..Len(solved) : solved[g].how = "raised")
        => \A g \in 1..Len(solved) : \A i \in 1..Len(solved[g].routes) :
              \E r \in 1..Len(output.routes) :
                  Unpriced(output.routes[r]) = solved[g].routes[i]

\* C8 (claim as stated; refuted): whenever a cluster was replaced by solo
\* routes by the per-cluster fallback, optimize() returns status "partial".
C8_InfeasibilitySurfaced ==
    (ServiceDone /\ \E g \in 1..Len(solved) : solved[g].how = "raised")
        => output.status = "partial"

\* C9 (claim as stated, less its clause on valid rides, which is C1's;
\* refuted): no ride with earliest >= latest or with a pickup or dropoff
\* latitude or longitude out of range appears in a returned route, and when
\* no well-formed ride remains the status is "failed" with zero routes.
C9_InvalidRidesExcluded ==
    (ServiceDone /\ input # <<>>) =>
        /\ \A i \in 1..Len(input) :
              ~RideWellFormed(input[i]) =>
                  \A r \in 1..Len(output.routes) :
                      input[i].id \notin StopRideIds(output.routes[r])
        /\ (\A i \in 1..Len(input) : ~RideWellFormed(input[i])) =>
              output.status = "failed" /\ output.routes = <<>>

\* C10: optimize([]) returns at once with status "success", no routes, zero
\* cost and zero savings, and neither the pooler, the solver nor the pricing
\* engine has been invoked.
C10_EmptyInput ==
    (ServiceDone /\ input = <<>>) =>
        /\ output.status = "success"
        /\ output.routes = <<>>
        /\ output.total_cost = 0
        /\ output.total_savings = 0
        /\ called = {}

C10_Witness == ServiceDone /\ input = <<>>

\* find_compatible_groups, called alone, has returned
PoolerDone == entry = "find_compatible_groups" /\ pc = "done"

GroupPassengers(group) == SeqSum([k \in 1..Len(group) |-> group[k].num_passengers])

\* C11: for max_group_size >= 1 and rides of 1..4 passengers, every cluster
\* returned by find_compatible_groups carries at most 4 passengers in total
\* and has at most max_group_size members.
C11_ClusterBounds ==
    (/\ PoolerDone
     /\ args.max_group_size >= 1
     /\ \A i \in 1..Len(input) : input[i].num_passengers \in 1..VEHICLE_CAPACITY)
        => \A g \in 1..Len(groups) :
              /\ GroupPassengers(groups[g]) <= VEHICLE_CAPACITY
              /\ Len(groups[g]) <= args.max_group_size

\* a cluster filled to the passenger capacity and to max_group_size while a
\* ride compatible with its seed had to be left out
C11_Witness ==
    /\ PoolerDone
    /\ \E g \in 1..Len(groups) :
          /\ GroupPassengers(groups[g]) = VEHICLE_CAPACITY
          /\ Len(groups[g]) = args.max_group_size
          /\ Len(groups[g]) >= 2
          /\ \E h \in (g + 1)..Len(groups) : can_pool(groups[g][1], groups[h][1])

\* the three conditions of the claim, of a member c against the seed s
SeedCompatible(s, c) ==
    LET sp_cp == estimate_geographic_distance(s.pickup, c.pickup)
        cp_sd == estimate_geographic_distance(c.pickup, s.dropoff)
        sp_sd == estimate_geographic_distance(s.pickup, s.dropoff)
    IN  /\ Max2(s.time_window.earliest, c.time_window.earliest)
              < Min2(s.time_window.latest, c.time_window.latest)
        /\ sp_cp <= MAX_PICKUP_DISTANCE_KM
        /\ (sp_cp + cp_sd - sp_sd) * 60 <= DEFAULT_MAX_DETOUR_MINUTES * SpeedKmh

\* C12: in every cluster returned by find_compatible_groups the first member
\* is the seed (no member has an earlier preferred time), and every other
\* member overlaps the seed's window, is picked up within 2 km of the
\* seed's pickup and costs the seed a detour of at most 15 minutes at 30 km/h.
C12_SeedCompatibility ==
    PoolerDone =>
        \A g \in 1..Len(groups) : \A k \in 2..Len(groups[g]) :
            /\ groups[g][1].time_window.preferred <= groups[g][k].time_window.preferred
            /\ SeedCompatible(groups[g][1], groups[g][k])

\* a cluster of three with a positive detour for the seed
C12_Witness ==
    /\ PoolerDone
    /\ \E g \in 1..Len(groups) :
          /\ Len(groups[g]) >= 3
          /\ \E k \in 2..Len(groups[g]) :
                estimate_detour_sync(groups[g][1], groups[g][k]) > 0

\* two rides are in one cluster, one of them its seed
SeedAndCandidate(r, c) ==
    \E g \in 1..Len(groups) :
        /\ groups[g][1] \in {r, c}
        /\ {r, c} \subseteq Range(groups[g])

\* C13: check_time_overlap(tw1, tw2) is true iff max(earliest) < min(latest);
\* windows that only touch at an endpoint do not overlap, and two rides with
\* such windows are never in one cluster as seed and candidate.
C13_StrictOverlap ==
    \A i, j \in 1..Len(input) :
        LET tw1 == input[i].time_window
            tw2 == input[j].time_window
        IN  /\ check_time_overlap(tw1, tw2)
                  <=> (Max2(tw1.earliest, tw2.earliest) < Min2(tw1.latest, tw2.latest))
            /\ tw1.latest = tw2.earliest =>
                  /\ ~check_time_overlap(tw1, tw2)
                  /\ ~check_time_overlap(tw2, tw1)
                  /\ PoolerDone => ~SeedAndCandidate(input[i], input[j])

\* two rides whose windows touch, close enough and small enough to share a
\* vehicle, have been put into different clusters
C13_Witness ==
    /\ PoolerDone
    /\ \E i, j \in 1..Len(input) :
          /\ input[i].time_window.latest = input[j].time_window.earliest
          /\ input[i].num_passengers + input[j].num_passengers <= VEHICLE_CAPACITY
          /\ estimate_geographic_distance(input[i].pickup, input[j].pickup)
                <= MAX_PICKUP_DISTANCE_KM
          /\ \E g \in 1..Len(groups) : groups[g][1] = input[i]

\* Scenario A at the model's resolution of one km: two well-formed rides
\* picked up at the same place, with the same window and preferred time and
\* one passenger each
ScenarioA(rs) ==
    /\ Len(rs) = 2
    /\ \A i \in 1..2 : RideWellFormed(rs[i]) /\ rs[i].num_passengers = 1
    /\ estimate_geographic_distance(rs[1].pickup, rs[2].pickup) = 0
    /\ rs[1].time_window = rs[2].time_window

\* C14 (claim as stated; the greedy fallback refutes it): in Scenario A the
\* pooler returns one cluster holding both rides, and what the orchestrator
\* obtains for it from RouteSolver.solve, by the constrained search or by
\* the greedy fallback, is one route with 4 stops and capacity_used = 2.
C14_ScenarioA ==
    (entry = "service" /\ ScenarioA(input)) =>
        /\ ("pooler" \in called /\ raised # "pooling") =>
              Len(groups) = 1 /\ Range(groups[1]) = Range(input)
        /\ \A g \in 1..Len(solved) :
              solved[g].how \in {"greedy", "ortools"} =>
                  /\ Len(solved[g].routes) = 1
                  /\ Len(solved[g].routes[1].stops) = 4
                  /\ solved[g].routes[1].capacity_used = 2

\* C15: for a cluster of exactly one ride the orchestrator does not invoke
\* the solver and obtains exactly one route of exactly 2 stops, the ride's
\* pickup at sequence 0 then its dropoff at sequence 1, with capacity_used
\* equal to the ride's passenger count and load_profile [passengers, 0].
C15_SingleRideShortCircuit ==
    entry = "service" =>
        /\ \A g \in 1..Len(solved) :
              Len(groups[g]) = 1 =>
                  LET ride == groups[g][1]
                      rts == solved[g].routes
                  IN  /\ Len(rts) = 1
                      /\ Len(rts[1].stops) = 2
                      /\ IsSoloRouteOf(rts[1], ride)
                      /\ rts[1].stops[1].sequence = 0
                      /\ rts[1].stops[2].sequence = 1
                      /\ rts[1].capacity_used = ride.num_passengers
                      /\ rts[1].load_profile = <<ride.num_passengers, 0>>
        /\ (\A g \in 1..Len(solved) : Len(groups[g]) = 1) => "solver" \notin called

\* a batch of several single-ride clusters, one of them with three
\* passengers, has been answered
C15_Witness ==
    /\ ServiceDone
    /\ Len(solved) >= 2
    /\ \A g \in 1..Len(solved) : Len(groups[g]) = 1
    /\ \E g \in 1..Len(solved) : groups[g][1].num_passengers = 3
    /\ output.status = "success"

PickupDistance(r, c) == estimate_geographic_distance(r.pickup, c.pickup)

\* C16 (claim as stated; refuted): no cluster returned by
\* find_compatible_groups holds two rides, seed or not, whose pickups are
\* more than 2 km apart.
C16_FarPickupsNeverPooled ==
    PoolerDone =>
        \A g \in 1..Len(groups) : \A i, j \in 1..Len(groups[g]) :
            PickupDistance(groups[g][i], groups[g][j]) <= MAX_PICKUP_DISTANCE_KM

\* C16 (amended): in every cluster returned by find_compatible_groups each
\* member is picked up within 2 km of the seed's pickup, so two members are
\* never more than 4 km apart; and two rides with pickups more than 2 km
\* apart, passed alone, come back as two clusters.
C16_FarFromSeedNeverPooled ==
    PoolerDone =>
        /\ \A g \in 1..Len(groups) : \A i, j \in 1..Len(groups[g]) :
              /\ PickupDistance(groups[g][1], groups[g][j]) <= MAX_PICKUP_DISTANCE_KM
              /\ PickupDistance(groups[g][i], groups[g][j]) <= 2 * MAX_PICKUP_DISTANCE_KM
        /\ (/\ Len(input) = 2
            /\ PickupDistance(input[1], input[2]) > MAX_PICKUP_DISTANCE_KM)
              => Len(groups) = 2

\* a cluster with two members, neither of them the seed, 4 km apart
C16_Witness ==
    /\ PoolerDone
    /\ \E g \in 1..Len(groups) : \E i, j \in 2..Len(groups[g]) :
          PickupDistance(groups[g][i], groups[g][j]) = 2 * MAX_PICKUP_DISTANCE_KM

\* ride id and type of every stop of a route, in visiting order
StopOrder(route) ==
    [i \in 1..Len(route.stops) |-> <<route.stops[i].ride_id, route.stops[i].type>>]

PricingDone == entry = "pricing" /\ pc = "done"

\* rides a route serves: its pickup stops
RidesServed(route) ==
    Cardinality({i \in 1..Len(route.stops) : route.stops[i].type = "pickup"})

\* pooled price per rider for k riders, times k
GrossRevenueFor(route, k) ==
    calculate_pooled_price(calculate_base_price(route.total_distance_km,
                                                route.total_duration_minutes), k) * k

\* C18: for a route serving k rides, calculate_driver_earnings reports
\* gross_revenue = calculate_pooled_price(base price of the route, k) * k,
\* platform_fee = 15% of gross_revenue and net_earnings = gross_revenue -
\* platform_fee, each to the cent.
C18_DriverEarningsRiderCount ==
    PricingDone =>
        \A r \in 1..Len(routes) :
            LET k == RidesServed(routes[r])
                e == output.earnings[r]
            IN  /\ e.gross_revenue = GrossRevenueFor(routes[r], k)
                /\ e.platform_fee = RoundDiv(e.gross_revenue * PLATFORM_FEE_RATE, 100)
                /\ Abs(e.net_earnings - (e.gross_revenue - e.platform_fee)) <= 1

\* C19: estimate_savings returns total_savings = max(0, sum of the solo
\* prices of the rides - sum over the routes of the pooled gross revenue),
\* the amount per route being the gross_revenue calculate_driver_earnings
\* reports and optimize() adds up into total_cost; total_savings >= 0.
C19_SavingsConsistentWithCost ==
    PricingDone =>
        LET solo == SeqSum([i \in 1..Len(rides) |-> solo_price(rides[i])])
        IN  /\ output.total_cost
                  = SeqSum([r \in 1..Len(routes) |-> output.earnings[r].gross_revenue])
            /\ \A r \in 1..Len(routes) :
                  /\ routes[r].revenue = output.earnings[r].gross_revenue
                  /\ route_pooled_cost(routes[r]) = output.earnings[r].gross_revenue
            /\ output.savings_info.total_savings = Max2(0, solo - output.total_cost)
            /\ output.savings_info.total_savings >= 0

\* the discount of the schedule, percent
ScheduleDiscount(n) ==
    CASE n = 1 -> 0
      [] n = 2 -> 20
      [] n = 3 -> 30
      [] OTHER -> 40

\* C20: calculate_pooled_price(base, n) for base >= 0 takes 0% off for
\* n = 1, 20% for n = 2, 30% for n = 3 and 40% for every n >= 4 (to the
\* cent); the price per rider does not rise from n - 1 to n and is the
\* price of n = 4 for every n >= 4.
C20_DiscountSchedule ==
    (/\ entry = "calculate_pooled_price" /\ pc = "done"
     /\ args.base_price >= 0 /\ args.num_riders_in_pool >= 1) =>
        LET base == args.base_price
            n == args.num_riders_in_pool
        IN  /\ ~output.raised
            /\ output.price = RoundDiv(base * (100 - ScheduleDiscount(n)), 100)
            /\ n > 1 => output.price <= calculate_pooled_price(base, n - 1)
            /\ n >= 4 => output.price = calculate_pooled_price(base, 4)

\* a positive base price has been discounted for more than four riders
C20_Witness ==
    /\ entry = "calculate_pooled_price" /\ pc = "done"
    /\ args.base_price > 0 /\ args.num_riders_in_pool > 4
    /\ ~output.raised
    /\ output.price < args.base_price

\* compute_pooling_efficiency has returned
EfficiencyDone == entry = "compute_pooling_efficiency" /\ pc = "done"

\* C21: compute_pooling_efficiency(cluster_size, total) equals
\* min(0.5, (cluster_size - 1) * 0.15), is 0 for cluster sizes <= 1 and is
\* 0.5 for every cluster of 4 or more rides.
C21_EfficiencySaturation ==
    EfficiencyDone =>
        LET k == args.cluster_size
        IN  /\ k <= 1 => output.efficiency = 0
            /\ k > 1 => output.efficiency = Min2(50, (k - 1) * 15)
            /\ k >= 4 => output.efficiency = 50

\* C21, amended: the value is 0 for cluster sizes <= 1, 0.15, 0.30 and
\* 0.45 for 2, 3 and 4 rides, and 0.5 for every cluster of 5 or more rides,
\* whatever total is.
C21_EfficiencySaturatesAtFive ==
    EfficiencyDone =>
        LET k == args.cluster_size
        IN  output.efficiency = CASE k <= 1 -> 0
                                  [] k = 2 -> 15
                                  [] k = 3 -> 30
                                  [] k = 4 -> 45
                                  [] OTHER -> 50

\* the efficiency of a cluster of four rides has been computed, below the cap
C21_Witness ==
    EfficiencyDone /\ args.cluster_size = 4 /\ output.efficiency < 50

\* position of a phase in IDLE -> COMMIT -> REVEAL -> FINALIZED
PhaseRank(phase) ==
    CASE phase = "IDLE" -> 0
      [] phase = "COMMIT" -> 1
      [] phase = "REVEAL" -> 2
      [] phase = "FINALIZED" -> 3

\* the last call was one of the three lifecycle calls
LifecycleCalled ==
    last_call.op \in {"start_bidding", "transition_to_reveal", "end_bidding"}

\* C22: a start_bidding, transition_to_reveal or end_bidding call leaves
\* the phase of every bundle where it was or moves it to the next phase of
\* IDLE -> COMMIT -> REVEAL -> FINALIZED; end_bidding on a bundle that is
\* not in REVEAL raises ValueError and leaves the state unchanged.
C22_PhasesAdvanceInOrder ==
    LifecycleCalled =>
        /\ \A b \in BundleIds :
              LET was == PhaseRank(last_call.before[b].phase)
                  is == PhaseRank(bidding_state[b].phase)
              IN  is = was \/ is = was + 1
        /\ (/\ last_call.op = "end_bidding"
            /\ last_call.before[last_call.bundle_id].phase # "REVEAL") =>
               /\ last_call.raised = "ValueError"
               /\ bidding_state = last_call.before

\* C23: start_bidding on a bundle with recorded state raises ValueError,
\* makes no call of the adapter's start_commit and leaves every recorded
\* phase as it was.
C23_OneLifecyclePerBundle ==
    (/\ last_call.op = "start_bidding"
     /\ last_call.before[last_call.bundle_id].phase \in {"COMMIT", "REVEAL", "FINALIZED"}) =>
        /\ last_call.raised = "ValueError"
        /\ \A b \in BundleIds :
              bundle_log[b].start_commit = last_call.log_before[b].start_commit
        /\ bidding_state = last_call.before

\* start_bidding has been refused for a finalized bundle whose auction the
\* adapter had opened
C23_Witness ==
    /\ last_call.op = "start_bidding"
    /\ last_call.raised = "ValueError"
    /\ blockchain_adapter = "adapter"
    /\ bidding_state[last_call.bundle_id].phase = "FINALIZED"
    /\ bundle_log[last_call.bundle_id].start_commit = 1

\* the bids of a sequence
BidsOf(bids) == {bids[i] : i \in 1..Len(bids)}

SharedRouteBuilt ==
    \E r \in 1..Len(routes) : Cardinality(StopRideIds(routes[r])) >= 2

\* C24: an output of optimize() with status "success" holds only two-stop
\* routes of a single ride; when a route built for a cluster serves two or
\* more rides, the call ends in the top-level fallback: status "partial",
\* one solo route per ride, no bundles, total_cost 0.
C24_SuccessOnlySoloRoutes ==
    ServiceDone =>
        /\ output.status = "success" =>
              \A r \in 1..Len(output.routes) :
                  /\ Len(output.routes[r].stops) = 2
                  /\ Cardinality(StopRideIds(output.routes[r])) = 1
        /\ SharedRouteBuilt =>
              /\ raised \in {"bundles", "pricing"}
              /\ output.status = "partial"
              /\ output.bundles = <<>>
              /\ output.total_cost = 0
              /\ Len(output.routes) = Len(rides)
              /\ \A i \in 1..Len(rides) : IsSoloRouteOf(output.routes[i], rides[i])

\* the constraint solver had built a shared route and the construction of
\* its bundle raised
C24_Witness ==
    /\ ServiceDone
    /\ SharedRouteBuilt
    /\ raised = "bundles"
    /\ output.status = "partial"

\* three rides of which s has the earliest preferred time and can be pooled
\* with a and with b, all three fit one vehicle, and the windows of a and b
\* do not overlap
SeedBridges(rs, s, a, b) ==
    /\ Len(rs) = 3 /\ {s, a, b} = 1..3
    /\ rs[s].time_window.preferred < rs[a].time_window.preferred
    /\ rs[s].time_window.preferred < rs[b].time_window.preferred
    /\ SeedCompatible(rs[s], rs[a])
    /\ SeedCompatible(rs[s], rs[b])
    /\ GroupPassengers(rs) <= VEHICLE_CAPACITY
    /\ ~check_time_overlap(rs[a].time_window, rs[b].time_window)

\* C25: for three rides of which the earliest can be pooled with each of
\* the other two, whose windows do not overlap each other, and for
\* max_group_size >= 3, find_compatible_groups returns one cluster of all
\* three: two members that are not the seed are incompatible.
C25_SeedOnlyAdmitsIncompatible ==
    (/\ PoolerDone
     /\ args.max_group_size >= 3
     /\ \E s, a, b \in 1..3 : SeedBridges(input, s, a, b)) =>
        /\ Len(groups) = 1
        /\ Len(groups[1]) = 3
        /\ ~check_time_overlap(groups[1][2].time_window, groups[1][3].time_window)
        /\ ~can_pool(groups[1][2], groups[1][3])

\* the pooler has returned a cluster whose second and third members have
\* windows that only touch
C25_Witness ==
    /\ PoolerDone
    /\ \E g \in 1..Len(groups) :
          /\ Len(groups[g]) >= 3
          /\ groups[g][2].time_window.latest = groups[g][3].time_window.earliest
          /\ ~can_pool(groups[g][2], groups[g][3])

\* r comes before c in ascending preferred-time order, ties in input order
\* (a ride's id is its position in the input)
SortsBefore(r, c) ==
    \/ r.time_window.preferred < c.time_window.preferred
    \/ r.time_window.preferred = c.time_window.preferred /\ r.id < c.id

\* C26: the clusters of find_compatible_groups are seeded in ascending
\* preferred-time order (ties in input order) and list their members in
\* that order; for a cluster C with seed s and a ride r of a later cluster,
\* C holds max_group_size rides, or passengers(C) + r.num_passengers
\* exceeds the capacity, or can_pool(s, r) is false.
C26_GreedyMaximalityAndOrder ==
    (PoolerDone /\ args.max_group_size >= 1) =>
        /\ \A g, h \in 1..Len(groups) :
              g < h => SortsBefore(groups[g][1], groups[h][1])
        /\ \A g \in 1..Len(groups) : \A k, l \in 1..Len(groups[g]) :
              k < l => SortsBefore(groups[g][k], groups[g][l])
        /\ \A g, h \in 1..Len(groups) : \A k \in 1..Len(groups[h]) :
              g < h =>
                 LET r == groups[h][k] IN
                 \/ Len(groups[g]) >= args.max_group_size
                 \/ GroupPassengers(groups[g]) + r.num_passengers > VEHICLE_CAPACITY
                 \/ ~can_pool(groups[g][1], r)

\* a candidate over the capacity was passed over and a later, smaller
\* candidate joined the cluster: a ride of a later cluster is compatible
\* with the seed of the first cluster and sorts before its last member
C26_Witness ==
    /\ PoolerDone
    /\ Len(groups) >= 2
    /\ Len(groups[1]) >= 2
    /\ Len(groups[1]) < args.max_group_size
    /\ \E k \in 1..Len(groups[2]) :
          /\ can_pool(groups[1][1], groups[2][k])
          /\ SortsBefore(groups[2][k], groups[1][Len(groups[1])])
          /\ \A m \in 1..Len(groups[1]) :
                groups[1][m].num_passengers < groups[2][k].num_passengers

\* optimize_rides has returned its bundles
LegacyDone == entry = "legacy" /\ pc = "done" /\ output.status = "success"

\* C27: the route solve_cluster builds for a cluster of k rides has 2k
\* stops with sequence 0, 1, ..., 2k-1 in list order, the k pickups in
\* cluster order before the k dropoffs, load_profile[i] the running
\* passenger total after stop i (0 at the end), capacity_used the maximum
\* of load_profile, and revenue 0.
C27_RouteAssembly ==
    LegacyDone =>
        \A b \in 1..Len(output.bundles) :
            LET route == output.bundles[b].route
                cluster == groups[b]
                k == Len(cluster)
            IN  /\ Len(route.stops) = 2 * k
                /\ Len(route.load_profile) = 2 * k
                /\ \A i \in 1..(2 * k) :
                      /\ route.stops[i].sequence = i - 1
                      /\ route.stops[i].type = IF i <= k THEN "pickup" ELSE "dropoff"
                      /\ route.stops[i].ride_id
                            = cluster[IF i <= k THEN i ELSE i - k].id
                      /\ route.load_profile[i] = PassengersAfter(route, i)
                      /\ route.load_profile[i] <= route.capacity_used
                /\ route.load_profile[2 * k] = 0
                /\ \E i \in 1..(2 * k) : route.load_profile[i] = route.capacity_used
                /\ route.revenue = 0

\* optimize_rides has returned the route of a cluster of rides with
\* different passenger counts, next to the route of another cluster
C27_Witness ==
    /\ LegacyDone
    /\ Len(output.bundles) >= 2
    /\ \E b \in 1..Len(output.bundles) :
          /\ Len(groups[b]) >= 2
          /\ Len(output.bundles[b].route.stops) = 2 * Len(groups[b])
          /\ \E i, j \in 1..Len(groups[b]) :
                groups[b][i].num_passengers # groups[b][j].num_passengers

\* rides carried by the routes with more than two stops
RidesInSharedRoutes(rts) ==
    SeqSum([r \in 1..Len(rts) |->
        IF Len(rts[r].stops) > 2 THEN Len(rts[r].stops) \div 2 ELSE 0])

\* C28: in the metrics of an optimize() call that completed its pipeline,
\* rides_pooled counts the rides of the routes with more than 2 stops,
\* vehicles_used is the number of routes, and pooling_efficiency is
\* rides_pooled / vehicles_used.
C28_PooledRideMetrics ==
    (ServiceDone /\ raised = "none" /\ output.routes # <<>>) =>
        /\ output.metrics.rides_pooled = RidesInSharedRoutes(output.routes)
        /\ output.metrics.vehicles_used = Len(output.routes)
        /\ output.metrics.pooling_efficiency
              = RoundDiv(100 * output.metrics.rides_pooled, output.metrics.vehicles_used)

\* the events on the chain, as <<block, index>>
ChainEvents ==
    {e \in (1..Len(chain_blocks)) \X (1..MaxEventsPerBlock) :
        e[2] <= Len(chain_blocks[e[1]])}

\* C30: while start_monitoring runs, record_payment is invoked at most
\* once for every AuctionFinalized event with a non-zero winner, also when
\* the batch is polled again after another of its events raised, and never
\* for an event whose winner is the zero address.
C30_SettlementAtMostOnce ==
    entry = "start_monitoring" =>
        \A e \in ChainEvents :
            IF EventWinner(e) = ZeroAddress
            THEN payments[e[1]][e[2]].invoked = 0
            ELSE payments[e[1]][e[2]].invoked <= 1

====
